---------------------------- MODULE Spec2Model ----------------------------
(***************************************************************************)
(* A model of the snippe Python SDK's webhook trust boundary               *)
(* (src/snippe/webhooks.py): WebhookHandler.compute_signature,             *)
(* verify_signature, parse, verify_and_parse and verify_webhook.           *)
(*                                                                         *)
(* Python strings are sequences of one-character strings, so that          *)
(* int(timestamp), the f-string of compute_signature, str.encode() and     *)
(* json.loads work on the characters as the code does.  HMAC-SHA256 is     *)
(* symbolic: a digest is the pair (key bytes, message bytes) it was        *)
(* computed from, i.e. the hash is taken to be collision free.             *)
(***************************************************************************)
EXTENDS Integers, Sequences, FiniteSets, TLC

VARIABLES
    signing_key,  \* WebhookHandler.signing_key of the long-lived handler
    tolerance,    \* WebhookHandler.tolerance of the long-lived handler
    clock,        \* what time.time() returns now: sec + half/2 seconds
    calls,        \* caller -> the activation record of its current call
    api_key,      \* Snippe.api_key
    base_url,     \* Snippe.base_url
    http_client,  \* Snippe._client, the httpx.Client
    requests,     \* the HTTP requests sent so far, in order
    api           \* the activation record of the current API method call

webhook_vars == <<signing_key, tolerance, clock, calls>>
client_vars == <<api_key, base_url, http_client, requests, api>>
vars == <<webhook_vars, client_vars>>

(***************************************************************************)
(* Python values                                                           *)
(***************************************************************************)
PyNone == [t |-> "None"]
PyStr(chars) == [t |-> "str", s |-> chars]

Digits == {"0", "1", "2", "3", "4", "5", "6", "7", "8", "9"}
DigitValue ==
    [d \in Digits |->
        CASE d = "0" -> 0 [] d = "1" -> 1 [] d = "2" -> 2 [] d = "3" -> 3
          [] d = "4" -> 4 [] d = "5" -> 5 [] d = "6" -> 6 [] d = "7" -> 7
          [] d = "8" -> 8 [] d = "9" -> 9]
Whitespace == {" ", "\t", "\n", "\r"}
\* The character outside ASCII that the model's strings use: U+00E9, e with
\* an acute accent, written "U+00E9".
NonAscii == {"U+00E9"}

RECURSIVE lstrip(_)
lstrip(s) ==
    IF s # <<>> /\ Head(s) \in Whitespace THEN lstrip(Tail(s)) ELSE s

RECURSIVE rstrip(_)
rstrip(s) ==
    IF s # <<>> /\ s[Len(s)] \in Whitespace
    THEN rstrip(SubSeq(s, 1, Len(s) - 1))
    ELSE s

\* The digit part of an integer literal: digits, single underscores between.
ValidDigits(d) ==
    /\ d # <<>>
    /\ \A i \in 1..Len(d) :
          \/ d[i] \in Digits
          \/ /\ d[i] = "_"
             /\ i > 1 /\ i < Len(d)
             /\ d[i - 1] \in Digits /\ d[i + 1] \in Digits

RECURSIVE DigitsValue(_, _)
DigitsValue(d, acc) ==
    IF d = <<>> THEN acc
    ELSE IF Head(d) = "_" THEN DigitsValue(Tail(d), acc)
    ELSE DigitsValue(Tail(d), acc * 10 + DigitValue[Head(d)])

\* The number of digits of the literal's value: its digits from the first
\* that is not 0 on (0 for the value 0).
SignificantDigits(d) ==
    LET nonzero == {i \in 1..Len(d) : d[i] \in Digits \ {"0"}}
    IN  IF nonzero = {} THEN 0
        ELSE LET first == CHOOSE i \in nonzero : \A j \in nonzero : i <= j
             IN  Cardinality({i \in first..Len(d) : d[i] \in Digits})

\* A Python int is unbounded.  One of at most 10 digits is known by its value
\* n; a longer one by its number of digits and its sign (and its n is 0).
NoInt == [exc |-> "", n |-> 0, digits |-> 0, neg |-> FALSE]

\* int(x) of a str or None:
\* [exc |-> "" | "ValueError" | "TypeError", n, digits, neg].
\* (int() also refuses a literal of more than 4300 digits with ValueError;
\* the strings of the model are shorter.)
int(x) ==
    IF x.t # "str" THEN [NoInt EXCEPT !.exc = "TypeError"]
    ELSE LET body == rstrip(lstrip(x.s))
             signed == body # <<>> /\ Head(body) \in {"+", "-"}
             d == IF signed THEN Tail(body) ELSE body
         IN  IF ~ValidDigits(d) THEN [NoInt EXCEPT !.exc = "ValueError"]
             ELSE LET k == SignificantDigits(d)
                      minus == signed /\ Head(body) = "-" /\ k > 0
                  IN  [exc |-> "",
                       n |-> IF k > 10 THEN 0
                             ELSE IF minus THEN 0 - DigitsValue(d, 0)
                             ELSE DigitsValue(d, 0),
                       digits |-> k,
                       neg |-> minus]

\* str.encode(): UTF-8.  An ASCII character is one byte, named by the
\* character; U+00E9 is the two bytes C3 A9.  (The string is encoded
\* by halves to keep the recursion shallow.)
RECURSIVE encode(_)
encode(s) ==
    IF Len(s) = 0 THEN <<>>
    ELSE IF Len(s) = 1
    THEN IF s[1] = "U+00E9" THEN <<"0xC3", "0xA9">> ELSE s
    ELSE encode(SubSeq(s, 1, Len(s) \div 2))
             \o encode(SubSeq(s, Len(s) \div 2 + 1, Len(s)))

\* hmac.new(key, msg, hashlib.sha256).hexdigest(): a str of 64 hexadecimal
\* characters, determined by (key, msg).  The literal strings of the model
\* are shorter, so none of them equals a digest.
hexdigest(key, msg) == [t |-> "hexdigest", key |-> key, msg |-> msg]

IsAscii(x) == x.t = "hexdigest" \/ \A i \in 1..Len(x.s) : x.s[i] \notin NonAscii

\* compare_digest with its result negated.
compare_digest_inverted(a, b) ==
    IF ~(IsAscii(a) /\ IsAscii(b)) THEN [exc |-> "TypeError", eq |-> FALSE]
    ELSE [exc |-> "", eq |-> a # b]

\* hmac.compare_digest(a, b) of two str: [exc |-> "" | "TypeError", eq].
compare_digest(a, b) ==
    IF ~(IsAscii(a) /\ IsAscii(b)) THEN [exc |-> "TypeError", eq |-> FALSE]
    ELSE [exc |-> "", eq |-> a = b]

(***************************************************************************)
(* json.loads of a str, for documents without backslash escapes.  A parse  *)
(* result is [ok, v, i]: the value and the index after it.                 *)
(***************************************************************************)
JsonFail == [ok |-> FALSE, v |-> PyNone, i |-> 0]
JsonOk(v, i) == [ok |-> TRUE, v |-> v, i |-> i]
PyInt(n) == [t |-> "int", n |-> n]
PyFloat(text) == [t |-> "float", text |-> text]
PyBool(b) == [t |-> "bool", b |-> b]
PyList(items) == [t |-> "list", items |-> items]
PyDict(d) == [t |-> "dict", d |-> d]
EmptyDict == [k \in {} |-> PyNone]
DictPut(d, k, v) == [x \in DOMAIN d \cup {k} |-> IF x = k THEN v ELSE d[x]]

\* The character at i, "" past either end.
At(s, i) == IF i >= 1 /\ i <= Len(s) THEN s[i] ELSE ""
StartsWith(s, i, lit) ==
    i + Len(lit) - 1 <= Len(s) /\ SubSeq(s, i, i + Len(lit) - 1) = lit

RECURSIVE skip_ws(_, _)
skip_ws(s, i) == IF At(s, i) \in Whitespace THEN skip_ws(s, i + 1) ELSE i

\* The index of the closing quote of the string whose content starts at i;
\* 0 when it is unterminated or holds a control character (strict mode).
RECURSIVE string_end(_, _)
string_end(s, i) ==
    IF i > Len(s) \/ s[i] \in {"\t", "\n", "\r"} THEN 0
    ELSE IF s[i] = "\"" THEN i
    ELSE string_end(s, i + 1)

scanstring(s, i) ==
    LET e == string_end(s, i)
    IN  IF e = 0 THEN JsonFail ELSE JsonOk(PyStr(SubSeq(s, i, e - 1)), e + 1)

RECURSIVE digits_end(_, _)
digits_end(s, i) == IF At(s, i) \in Digits THEN digits_end(s, i + 1) ELSE i

\* NUMBER_RE: (-?(?:0|[1-9][0-9]*))(\.[0-9]+)?([eE][-+]?[0-9]+)?
match_number(s, i) ==
    LET j == IF At(s, i) = "-" THEN i + 1 ELSE i
        intEnd == IF At(s, j) = "0" THEN j + 1
                  ELSE IF At(s, j) \in Digits THEN digits_end(s, j)
                  ELSE 0
        fracEnd == IF At(s, intEnd) = "." /\ At(s, intEnd + 1) \in Digits
                   THEN digits_end(s, intEnd + 1)
                   ELSE intEnd
        k == IF At(s, fracEnd) \in {"e", "E"}
             THEN IF At(s, fracEnd + 1) \in {"+", "-"}
                  THEN fracEnd + 2 ELSE fracEnd + 1
             ELSE 0
        expEnd == IF At(s, k) \in Digits THEN digits_end(s, k) ELSE fracEnd
    IN  IF intEnd = 0 THEN JsonFail
        ELSE IF expEnd = intEnd
        THEN JsonOk(PyInt(IF j > i
                          THEN 0 - DigitsValue(SubSeq(s, j, intEnd - 1), 0)
                          ELSE DigitsValue(SubSeq(s, j, intEnd - 1), 0)),
                    intEnd)
        ELSE JsonOk(PyFloat(SubSeq(s, i, expEnd - 1)), expEnd)

RECURSIVE scan_once(_, _)
RECURSIVE JSONObjectPairs(_, _, _)
RECURSIVE JSONArrayItems(_, _, _)

\* i is at the opening quote of a key; acc holds the pairs read so far.
JSONObjectPairs(s, i, acc) ==
    IF At(s, i) # "\"" THEN JsonFail
    ELSE LET key == scanstring(s, i + 1)
         IN  IF ~key.ok THEN JsonFail
             ELSE LET colon == skip_ws(s, key.i)
                  IN  IF At(s, colon) # ":" THEN JsonFail
                      ELSE LET val == scan_once(s, skip_ws(s, colon + 1))
                           IN  IF ~val.ok THEN JsonFail
                               ELSE LET e == skip_ws(s, val.i)
                                        acc2 == DictPut(acc, key.v.s, val.v)
                                    IN  IF At(s, e) = "}"
                                        THEN JsonOk(PyDict(acc2), e + 1)
                                        ELSE IF At(s, e) = ","
                                        THEN JSONObjectPairs(
                                                 s, skip_ws(s, e + 1), acc2)
                                        ELSE JsonFail

\* i is the index after "{" and the whitespace that follows it.
JSONObject(s, i) ==
    IF At(s, i) = "}" THEN JsonOk(PyDict(EmptyDict), i + 1)
    ELSE JSONObjectPairs(s, i, EmptyDict)

\* i is at the start of an item; acc holds the items read so far.
JSONArrayItems(s, i, acc) ==
    LET val == scan_once(s, i)
    IN  IF ~val.ok THEN JsonFail
        ELSE LET e == skip_ws(s, val.i)
                 acc2 == Append(acc, val.v)
             IN  IF At(s, e) = "]" THEN JsonOk(PyList(acc2), e + 1)
                 ELSE IF At(s, e) = ","
                 THEN JSONArrayItems(s, skip_ws(s, e + 1), acc2)
                 ELSE JsonFail

JSONArray(s, i) ==
    IF At(s, i) = "]" THEN JsonOk(PyList(<<>>), i + 1)
    ELSE JSONArrayItems(s, i, <<>>)

scan_once(s, i) ==
    LET c == At(s, i)
    IN  CASE c = "\"" -> scanstring(s, i + 1)
          [] c = "{" -> JSONObject(s, skip_ws(s, i + 1))
          [] c = "[" -> JSONArray(s, skip_ws(s, i + 1))
          [] c = "n" /\ StartsWith(s, i, <<"n", "u", "l", "l">>) ->
                JsonOk(PyNone, i + 4)
          [] c = "t" /\ StartsWith(s, i, <<"t", "r", "u", "e">>) ->
                JsonOk(PyBool(TRUE), i + 4)
          [] c = "f" /\ StartsWith(s, i, <<"f", "a", "l", "s", "e">>) ->
                JsonOk(PyBool(FALSE), i + 5)
          [] OTHER -> match_number(s, i)

\* json.loads(s): [exc |-> "" | "JSONDecodeError", v].
json_loads(s) ==
    LET r == scan_once(s, skip_ws(s, 1))
    IN  IF r.ok /\ skip_ws(s, r.i) = Len(s) + 1
        THEN [exc |-> "", v |-> r.v]
        ELSE [exc |-> "JSONDecodeError", v |-> PyNone]

(***************************************************************************)
(* WebhookPayload.from_dict (src/snippe/models.py)                         *)
(***************************************************************************)
K_event == <<"e","v","e","n","t">>
K_reference == <<"r","e","f","e","r","e","n","c","e">>
K_status == <<"s","t","a","t","u","s">>
K_amount == <<"a","m","o","u","n","t">>
K_payment_channel ==
    <<"p","a","y","m","e","n","t","_","c","h","a","n","n","e","l">>
K_payment_fee == <<"p","a","y","m","e","n","t","_","f","e","e">>
K_customer == <<"c","u","s","t","o","m","e","r">>
K_metadata == <<"m","e","t","a","d","a","t","a">>
K_completed_at == <<"c","o","m","p","l","e","t","e","d","_","a","t">>
K_created_at == <<"c","r","e","a","t","e","d","_","a","t">>
K_timestamp == <<"t","i","m","e","s","t","a","m","p">>

\* The keys read with data[...], in the order the call evaluates them.
RequiredKeys ==
    <<K_event, K_reference, K_status, K_amount, K_created_at, K_timestamp>>

\* dict.get that gives "" where the default is None.
DictGet_empty_for_None(d, k, default) ==
    IF k \in DOMAIN d THEN d[k]
    ELSE IF default = PyNone THEN PyStr(<<>>) ELSE default

\* dict.get(key, default)
DictGet(d, k, default) == IF k \in DOMAIN d THEN d[k] ELSE default

NoPayload == [t |-> "None"]

\* from_dict that accepts the event names of WebhookEvent only.
from_dict_known_events(data) ==
    IF data.t # "dict"
    THEN [exc |-> "TypeError", key |-> <<>>, v |-> NoPayload]
    ELSE LET d == data.d
             missing == {i \in 1..Len(RequiredKeys) :
                            RequiredKeys[i] \notin DOMAIN d}
         IN  IF missing # {}
             THEN [exc |-> "KeyError",
                   key |-> RequiredKeys[
                       CHOOSE i \in missing : \A j \in missing : i <= j],
                   v |-> NoPayload]
             ELSE IF d[K_event] \notin
                        {PyStr(<<"p","a","y","m","e","n","t",".","c","o","m","p","l","e","t","e","d">>),
                         PyStr(<<"p","a","y","m","e","n","t",".","f","a","i","l","e","d">>),
                         PyStr(<<"p","a","y","m","e","n","t",".","e","x","p","i","r","e","d">>),
                         PyStr(<<"p","a","y","m","e","n","t",".","v","o","i","d","e","d">>)}
             THEN [exc |-> "ValueError", key |-> <<>>, v |-> NoPayload]
             ELSE [exc |-> "", key |-> <<>>,
                   v |-> [t |-> "WebhookPayload",
                          event |-> d[K_event],
                          reference |-> d[K_reference],
                          status |-> d[K_status],
                          amount |-> d[K_amount],
                          payment_channel |->
                              DictGet(d, K_payment_channel, PyStr(<<>>)),
                          payment_fee |-> DictGet(d, K_payment_fee, PyInt(0)),
                          customer |-> DictGet(d, K_customer, PyDict(EmptyDict)),
                          metadata |-> DictGet(d, K_metadata, PyDict(EmptyDict)),
                          completed_at |-> DictGet(d, K_completed_at, PyNone),
                          created_at |-> d[K_created_at],
                          timestamp |-> d[K_timestamp]]]

\* WebhookPayload.from_dict(data): [exc, key, v].  data[...] of a value that
\* is no dict raises TypeError, of a dict without the key KeyError(key).
from_dict(data) ==
    IF data.t # "dict"
    THEN [exc |-> "TypeError", key |-> <<>>, v |-> NoPayload]
    ELSE LET d == data.d
             missing == {i \in 1..Len(RequiredKeys) :
                            RequiredKeys[i] \notin DOMAIN d}
         IN  IF missing # {}
             THEN [exc |-> "KeyError",
                   key |-> RequiredKeys[
                       CHOOSE i \in missing : \A j \in missing : i <= j],
                   v |-> NoPayload]
             ELSE [exc |-> "", key |-> <<>>,
                   v |-> [t |-> "WebhookPayload",
                          event |-> d[K_event],
                          reference |-> d[K_reference],
                          status |-> d[K_status],
                          amount |-> d[K_amount],
                          payment_channel |->
                              DictGet(d, K_payment_channel, PyStr(<<>>)),
                          payment_fee |-> DictGet(d, K_payment_fee, PyInt(0)),
                          customer |-> DictGet(d, K_customer, PyDict(EmptyDict)),
                          metadata |-> DictGet(d, K_metadata, PyDict(EmptyDict)),
                          completed_at |-> DictGet(d, K_completed_at, PyNone),
                          created_at |-> d[K_created_at],
                          timestamp |-> d[K_timestamp]]]

(***************************************************************************)
(* The clock.  time.time() is a float: a reading is sec + half/2 seconds.  *)
(***************************************************************************)
\* |now - ts| as whole + half/2 seconds, for an integer ts.
abs_diff(now, ts) ==
    LET d == now.sec - ts
    IN  IF now.half = 0 THEN [whole |-> IF d >= 0 THEN d ELSE 0 - d, half |-> 0]
        ELSE IF d >= 0 THEN [whole |-> d, half |-> 1]
        ELSE [whole |-> (0 - d) - 1, half |-> 1]

\* time.time() - ts converts the int ts to a float, and raises OverflowError
\* ("int too large to convert to float") for an int beyond the range of a
\* float, whose largest value has 309 digits.  An int of more digits is
\* beyond it; the ints of the model have at most 10 digits or more than 309.
float_overflow(ts) == ts.digits > 309

\* x >= n in place of x > n.
greater_or_equal(x, n) == x.whole >= n

\* x > n for x = whole + half/2 and an integer n.
greater(x, n) == x.whole > n \/ (x.whole = n /\ x.half > 0)

\* The age compared with > tolerance - 1.
timestamp_expired_one_early(now, ts, tol) ==
    ts.digits > 10 \/ greater(abs_diff(now, ts.n), tol - 1)

\* abs(time.time() - ts) > self.tolerance, for a ts within the range of a
\* float.  An int of more than 10 digits is further from the clock than any
\* tolerance of the model.
timestamp_expired(now, ts, tol) ==
    ts.digits > 10 \/ greater(abs_diff(now, ts.n), tol)

(***************************************************************************)
(* WebhookHandler.compute_signature                                        *)
(***************************************************************************)
\* What an f-string field {x} renders: str(x).
fstr(x) == IF x.t = "None" THEN <<"N", "o", "n", "e">> ELSE x.s

\* The message built from the digits of the timestamp alone.
signed_message_of_digits(payload, timestamp) ==
    LET IsDigit(ch) == ch \in Digits
    IN  SelectSeq(fstr(timestamp), IsDigit) \o <<".">> \o payload

\* message = f"{timestamp}.{payload}"
signed_message(payload, timestamp) == fstr(timestamp) \o <<".">> \o payload

compute_signature(key, payload, timestamp) ==
    hexdigest(encode(key), encode(signed_message(payload, timestamp)))

(***************************************************************************)
(* Inputs: what the callers pass in                                        *)
(***************************************************************************)
Epoch == 1700000000
DefaultTolerance == 300

whsec_test == <<"w","h","s","e","c","_","t","e","s","t">>
whsec_live == <<"w","h","s","e","c","_","l","i","v","e">>
Keys == {whsec_test, whsec_live}
OtherKey(key) == IF key = whsec_test THEN whsec_live ELSE whsec_test
Tolerances == {0, 1, DefaultTolerance}

\* The readings of time.time() a run may pass through, in order; the clock of
\* a run goes through the first ClockSteps of them.
ClockSteps == 3
ClockSchedule ==
    << [sec |-> Epoch, half |-> 0],
       [sec |-> Epoch, half |-> 1],
       [sec |-> Epoch + DefaultTolerance, half |-> 0],
       [sec |-> Epoch + DefaultTolerance, half |-> 1],
       [sec |-> Epoch + DefaultTolerance + 1, half |-> 0] >>
ClockReadings == {ClockSchedule[i] : i \in 1..ClockSteps}
Later(a, b) == b.sec > a.sec \/ (b.sec = a.sec /\ b.half > a.half)

PaymentCompletedBody ==
    <<"{","\"","e","v","e","n","t","\"",":","\"","p","a","y","m","e","n","t",".","c",
      "o","m","p","l","e","t","e","d","\"",",","\"","r","e","f","e","r","e","n","c","e",
      "\"",":","\"","p","a","y","_","1","\"",",","\"","s","t","a","t","u","s","\"",":",
      "\"","c","o","m","p","l","e","t","e","d","\"",",","\"","a","m","o","u","n","t",
      "\"",":","{","\"","v","a","l","u","e","\"",":","1","0","0","0",",","\"","c","u",
      "r","r","e","n","c","y","\"",":","\"","T","Z","S","\"","}",",","\"","c","r","e",
      "a","t","e","d","_","a","t","\"",":","\"","2","0","2","4","-","0","1","-","0","1",
      "T","0","0",":","0","0",":","0","0","Z","\"",",","\"","t","i","m","e","s","t","a",
      "m","p","\"",":","1","7","0","0","0","0","0","0","0","0","}">>

\* body with the byte at position i replaced by c
FlipByte(body, i, c) == [body EXCEPT ![i] = c]

\* The bodies: the payment.completed event, that body with one byte flipped
\* (byte 47, the last character of the reference, "pay_1" -> "pay_2", still
\* JSON; the closing brace, no JSON any more), an object without the required
\* keys, and a JSON value that is no object.
Bodies ==
    { PaymentCompletedBody,
      FlipByte(PaymentCompletedBody, 47, "2"),
      FlipByte(PaymentCompletedBody, Len(PaymentCompletedBody), "]"),
      <<"{","\"","e","v","e","n","t","\"",":","\"","p","a","y","m","e","n","t",".",
        "c","o","m","p","l","e","t","e","d","\"","}">>,
      <<"[","]">> }

T_epoch == PyStr(<<"1","7","0","0","0","0","0","0","0","0">>)
\* 1 and 309 zeros: an integer of 310 digits.
T_huge == PyStr(<<"1">> \o [i \in 1..309 |-> "0"])
Timestamps ==
    { T_epoch,
      T_huge,
      PyStr(<<"1","6","9","9","9","9","9","9","9","9">>),
      PyStr(<<"1","7","0","0","0","0","0","0","0","1">>),
      PyStr(<<"1","7","0","0","0","0","0","3","0","0">>),
      PyStr(<<"1","7","0","0","0","0","0","3","0","1">>),
      PyStr(<<"1","6","9","9","9","9","9","7","0","0">>),
      PyStr(<<"1","6","9","9","9","9","9","6","9","9">>),
      PyStr(<<"+","1","7","0","0","0","0","0","0","0","0">>),
      PyStr(<<" ","1","7","0","0","0","0","0","0","0","0">>),
      PyStr(<<"1","_","7","0","0","_","0","0","0","_","0","0","0">>),
      PyStr(<<"-","5">>),
      PyStr(<<>>),
      PyStr(<<"1",".","5">>),
      PyStr(<<"1","_","_","7">>),
      PyStr(<<"U+00E9">>),
      PyNone }

\* The X-Webhook-Signature values tried against (payload, timestamp) at a
\* handler holding key: the right digest, the digest under another key, of
\* the unflipped body, of another timestamp, and text that is no digest.
Signatures(key, payload, timestamp) ==
    { compute_signature(key, payload, timestamp),
      compute_signature(OtherKey(key), payload, timestamp),
      compute_signature(key, PaymentCompletedBody, timestamp),
      compute_signature(key, payload, T_epoch),
      PyStr(<<"d","e","a","d","b","e","e","f">>),
      PyStr(<<"U+00E9">>),
      PyStr(<<>>) }

\* An event whose name is none of the names of WebhookEvent.
PaymentRefundedBody ==
    <<"{","\"","e","v","e","n","t","\"",":","\"","p","a","y","m","e","n",
      "t",".","r","e","f","u","n","d","e","d","\"",",","\"","r","e","f","e",
      "r","e","n","c","e","\"",":","\"","p","a","y","_","1","\"",",","\"",
      "s","t","a","t","u","s","\"",":","\"","c","o","m","p","l","e","t","e",
      "d","\"",",","\"","a","m","o","u","n","t","\"",":","{","\"","v","a",
      "l","u","e","\"",":","1","0","0","0",",","\"","c","u","r","r","e","n",
      "c","y","\"",":","\"","T","Z","S","\"","}",",","\"","c","r","e","a",
      "t","e","d","_","a","t","\"",":","\"","2","0","2","4","-","0","1","-",
      "0","1","T","0","0",":","0","0",":","0","0","Z","\"",",","\"","t","i",
      "m","e","s","t","a","m","p","\"",":","1","7","0","0","0","0","0","0",
      "0","0","}">>

\* The webhooks that arrive while another is being verified, as [payload,
\* signature, timestamp]: signed under whsec_test, at the clock's start, 300
\* seconds before it (fresh or expired by the reading taken) and with a
\* timestamp that is no integer; signed under whsec_live; and not signed.
T_minus_300 == PyStr(<<"1","6","9","9","9","9","9","7","0","0">>)
Delivery(key, payload, timestamp) ==
    [payload |-> payload,
     signature |-> compute_signature(key, payload, timestamp),
     timestamp |-> timestamp]
Deliveries ==
    { Delivery(whsec_test, PaymentRefundedBody, T_epoch),
      Delivery(whsec_test, PaymentCompletedBody, T_minus_300),
      Delivery(whsec_test, PaymentCompletedBody, PyStr(<<"1",".","5">>)),
      Delivery(whsec_live, PaymentRefundedBody, T_epoch),
      [payload |-> PaymentCompletedBody,
       signature |-> PyStr(<<"d","e","a","d","b","e","e","f">>),
       timestamp |-> T_epoch] }

\* The dicts (and other JSON values) handed to parse().
ParseInputs == {json_loads(b).v : b \in {x \in Bodies : json_loads(x).exc = ""}}

(***************************************************************************)
(* The API client (src/snippe/client.py) and the models it returns         *)
(* (src/snippe/models.py).  A response is [status_code, text]; the JSON    *)
(* values are those of json_loads above.                                   *)
(***************************************************************************)
K_data == <<"d","a","t","a">>
K_message == <<"m","e","s","s","a","g","e">>
K_error_code == <<"e","r","r","o","r","_","c","o","d","e">>
K_currency == <<"c","u","r","r","e","n","c","y">>
K_value == <<"v","a","l","u","e">>
K_payment_type == <<"p","a","y","m","e","n","t","_","t","y","p","e">>
K_expires_at == <<"e","x","p","i","r","e","s","_","a","t">>
K_payment_url == <<"p","a","y","m","e","n","t","_","u","r","l">>
K_qr_code == <<"q","r","_","c","o","d","e">>
K_payment_qr_code == <<"p","a","y","m","e","n","t","_","q","r","_","c","o","d","e">>
K_payment_token == <<"p","a","y","m","e","n","t","_","t","o","k","e","n">>
K_id == <<"i","d">>
K_psp_reference == <<"p","s","p","_","r","e","f","e","r","e","n","c","e">>
K_fee_amount == <<"f","e","e","_","a","m","o","u","n","t">>
K_net_amount == <<"n","e","t","_","a","m","o","u","n","t">>
K_available_balance == <<"a","v","a","i","l","a","b","l","e","_","b","a","l","a","n","c","e">>
K_balance == <<"b","a","l","a","n","c","e">>
K_fees == <<"f","e","e","s">>
K_total == <<"t","o","t","a","l">>
K_channel == <<"c","h","a","n","n","e","l">>
K_recipient == <<"r","e","c","i","p","i","e","n","t">>
K_type == <<"t","y","p","e">>
K_provider == <<"p","r","o","v","i","d","e","r">>
K_name == <<"n","a","m","e">>
K_phone == <<"p","h","o","n","e">>
K_bank == <<"b","a","n","k">>
K_account == <<"a","c","c","o","u","n","t">>
K_narration == <<"n","a","r","r","a","t","i","o","n">>
K_external_reference == <<"e","x","t","e","r","n","a","l","_","r","e","f","e","r","e","n","c","e">>
K_source == <<"s","o","u","r","c","e">>
K_failure_reason == <<"f","a","i","l","u","r","e","_","r","e","a","s","o","n">>

S_TZS == PyStr(<<"T","Z","S">>)
S_pending == PyStr(<<"p","e","n","d","i","n","g">>)
S_Unknown_error == PyStr(<<"U","n","k","n","o","w","n"," ","e","r","r","o","r">>)
S_empty == PyStr(<<>>)

\* x.get(...) of a value that is no dict: AttributeError.
HasGet(x) == x.t = "dict"

\* __init__ with code and error_code left at their defaults.
SnippeError_defaults(class, message, code, error_code) ==
    [t |-> "exception", class |-> class, message |-> message,
     code |-> PyInt(0), error_code |-> S_empty]

\* An instance of SnippeError or of a subclass of it, as __init__ leaves it.
SnippeError(class, message, code, error_code) ==
    [t |-> "exception", class |-> class, message |-> message,
     code |-> code, error_code |-> error_code]

\* An exception that is no SnippeError.
PyError(class) ==
    [t |-> "exception", class |-> class, message |-> PyNone,
     code |-> PyNone, error_code |-> PyNone]

\* The chain with the branches of 400 and 404 exchanged.
error_class_exchanged(code) ==
    IF code = 401 THEN "AuthenticationError"
    ELSE IF code = 404 THEN "ValidationError"
    ELSE IF code = 400 THEN "NotFoundError"
    ELSE IF code = 429 THEN "RateLimitError"
    ELSE IF code >= 500 THEN "ServerError"
    ELSE "SnippeError"

\* The chain with every other status from 400 on taken for a server error.
error_class_from_400(code) ==
    IF code = 401 THEN "AuthenticationError"
    ELSE IF code = 400 THEN "ValidationError"
    ELSE IF code = 404 THEN "NotFoundError"
    ELSE IF code = 429 THEN "RateLimitError"
    ELSE IF code >= 400 THEN "ServerError"
    ELSE "SnippeError"

\* The if/elif chain of _handle_response: the class raised for a status
\* other than 200 and 201.
error_class(code) ==
    IF code = 401 THEN "AuthenticationError"
    ELSE IF code = 400 THEN "ValidationError"
    ELSE IF code = 404 THEN "NotFoundError"
    ELSE IF code = 429 THEN "RateLimitError"
    ELSE IF code >= 500 THEN "ServerError"
    ELSE "SnippeError"

\* A body that is no JSON taken for an empty object.
json_or_text_dropped(r, text) ==
    IF r.exc = "" THEN r.v ELSE PyDict(EmptyDict)

\* data = response.json(), or {"message": response.text} when it raises:
\* r is what json.loads made of the text.
json_or_text(r, text) ==
    IF r.exc = "" THEN r.v
    ELSE PyDict(DictPut(EmptyDict, K_message, PyStr(text)))

response_data(response) ==
    json_or_text(json_loads(response.text), response.text)

\* _handle_response that returns the whole body on success.
handle_data_whole(status_code, data) ==
    IF ~HasGet(data)
    THEN [raised |-> TRUE, exc |-> PyError("AttributeError"), v |-> PyNone]
    ELSE IF status_code = 200 \/ status_code = 201
    THEN [raised |-> FALSE, exc |-> PyNone, v |-> data]
    ELSE [raised |-> TRUE,
          exc |-> SnippeError(error_class(status_code),
                              DictGet(data.d, K_message, S_Unknown_error),
                              PyInt(status_code),
                              DictGet(data.d, K_error_code, S_empty)),
          v |-> PyNone]

\* The body of _handle_response once data is bound: [raised, exc, v], the
\* exception raised or the value returned.
handle_data(status_code, data) ==
    IF ~HasGet(data)
    THEN [raised |-> TRUE, exc |-> PyError("AttributeError"), v |-> PyNone]
    ELSE IF status_code = 200 \/ status_code = 201
    THEN [raised |-> FALSE, exc |-> PyNone,
          v |-> DictGet(data.d, K_data, data)]
    ELSE LET message == DictGet(data.d, K_message, S_Unknown_error)
             error_code == DictGet(data.d, K_error_code, S_empty)
             code == status_code
         IN  [raised |-> TRUE,
              exc |-> SnippeError(error_class(code), message,
                                  PyInt(code), error_code),
              v |-> PyNone]

\* Snippe._handle_response(response)
handle_response(response) ==
    handle_data(response.status_code, response_data(response))

\* Payment.from_dict that takes amount and currency from the top level only.
Payment_from_dict_flat(data) ==
    IF ~HasGet(data)
    THEN [raised |-> TRUE, exc |-> PyError("AttributeError"), v |-> PyNone]
    ELSE [raised |-> FALSE, exc |-> PyNone,
          v |-> [t |-> "Payment",
                 reference |-> DictGet(data.d, K_reference, S_empty),
                 status |-> DictGet(data.d, K_status, S_pending),
                 amount |-> DictGet(data.d, K_amount, PyInt(0)),
                 currency |-> DictGet(data.d, K_currency, S_TZS),
                 payment_type |-> DictGet(data.d, K_payment_type, S_empty),
                 expires_at |-> DictGet(data.d, K_expires_at, PyNone),
                 payment_url |-> DictGet(data.d, K_payment_url, PyNone),
                 qr_code |-> DictGet(data.d, K_qr_code, PyNone),
                 payment_qr_code |-> DictGet(data.d, K_payment_qr_code, PyNone),
                 payment_token |-> DictGet(data.d, K_payment_token, PyNone),
                 id |-> DictGet(data.d, K_id, PyNone),
                 psp_reference |-> DictGet(data.d, K_psp_reference, PyNone),
                 fee_amount |-> DictGet(data.d, K_fee_amount, PyNone),
                 net_amount |-> DictGet(data.d, K_net_amount, PyNone),
                 customer |-> DictGet(data.d, K_customer, PyNone),
                 metadata |-> DictGet(data.d, K_metadata, PyNone),
                 created_at |-> DictGet(data.d, K_created_at, PyNone)]]

\* Payment.from_dict whose nested amount never falls back on the top-level
\* currency.
Payment_from_dict_no_fallback(data) ==
    IF ~HasGet(data)
    THEN [raised |-> TRUE, exc |-> PyError("AttributeError"), v |-> PyNone]
    ELSE LET d == data.d
             amount_data == DictGet(d, K_amount, PyNone)
             nested == amount_data.t = "dict"
             amount ==
                 IF nested THEN DictGet(amount_data.d, K_value, PyInt(0))
                 ELSE IF amount_data.t # "None" THEN amount_data
                 ELSE PyInt(0)
             currency ==
                 IF nested
                 THEN DictGet(amount_data.d, K_currency, S_TZS)
                 ELSE DictGet(d, K_currency, S_TZS)
         IN  [raised |-> FALSE, exc |-> PyNone,
              v |-> [t |-> "Payment",
                     reference |-> DictGet(d, K_reference, S_empty),
                     status |-> DictGet(d, K_status, S_pending),
                     amount |-> amount,
                     currency |-> currency,
                     payment_type |-> DictGet(d, K_payment_type, S_empty),
                     expires_at |-> DictGet(d, K_expires_at, PyNone),
                     payment_url |-> DictGet(d, K_payment_url, PyNone),
                     qr_code |-> DictGet(d, K_qr_code, PyNone),
                     payment_qr_code |-> DictGet(d, K_payment_qr_code, PyNone),
                     payment_token |-> DictGet(d, K_payment_token, PyNone),
                     id |-> DictGet(d, K_id, PyNone),
                     psp_reference |-> DictGet(d, K_psp_reference, PyNone),
                     fee_amount |-> DictGet(d, K_fee_amount, PyNone),
                     net_amount |-> DictGet(d, K_net_amount, PyNone),
                     customer |-> DictGet(d, K_customer, PyNone),
                     metadata |-> DictGet(d, K_metadata, PyNone),
                     created_at |-> DictGet(d, K_created_at, PyNone)]]

\* Payment.from_dict(data): [raised, exc, v].
Payment_from_dict(data) ==
    IF ~HasGet(data)
    THEN [raised |-> TRUE, exc |-> PyError("AttributeError"), v |-> PyNone]
    ELSE LET d == data.d
             amount_data == DictGet(d, K_amount, PyNone)
             nested == amount_data.t = "dict"
             amount ==
                 IF nested THEN DictGet(amount_data.d, K_value, PyInt(0))
                 ELSE IF amount_data.t # "None" THEN amount_data
                 ELSE PyInt(0)
             currency ==
                 IF nested
                 THEN DictGet(amount_data.d, K_currency,
                              DictGet(d, K_currency, S_TZS))
                 ELSE DictGet(d, K_currency, S_TZS)
         IN  [raised |-> FALSE, exc |-> PyNone,
              v |-> [t |-> "Payment",
                     reference |-> DictGet(d, K_reference, S_empty),
                     status |-> DictGet(d, K_status, S_pending),
                     amount |-> amount,
                     currency |-> currency,
                     payment_type |-> DictGet(d, K_payment_type, S_empty),
                     expires_at |-> DictGet(d, K_expires_at, PyNone),
                     payment_url |-> DictGet(d, K_payment_url, PyNone),
                     qr_code |-> DictGet(d, K_qr_code, PyNone),
                     payment_qr_code |-> DictGet(d, K_payment_qr_code, PyNone),
                     payment_token |-> DictGet(d, K_payment_token, PyNone),
                     id |-> DictGet(d, K_id, PyNone),
                     psp_reference |-> DictGet(d, K_psp_reference, PyNone),
                     fee_amount |-> DictGet(d, K_fee_amount, PyNone),
                     net_amount |-> DictGet(d, K_net_amount, PyNone),
                     customer |-> DictGet(d, K_customer, PyNone),
                     metadata |-> DictGet(d, K_metadata, PyNone),
                     created_at |-> DictGet(d, K_created_at, PyNone)]]

\* Balance.from_dict(data): [raised, exc, v].
Balance_from_dict(data) ==
    IF ~HasGet(data)
    THEN [raised |-> TRUE, exc |-> PyError("AttributeError"), v |-> PyNone]
    ELSE LET d == data.d
         IN  [raised |-> FALSE, exc |-> PyNone,
              v |-> [t |-> "Balance",
                     available_balance |->
                         DictGet(d, K_available_balance, PyInt(0)),
                     balance |-> DictGet(d, K_balance, PyInt(0)),
                     currency |-> DictGet(d, K_currency, S_TZS)]]

\* PayoutAmount(value=x.get("value", 0), currency=x.get("currency", "TZS"))
PayoutAmount(x) ==
    [t |-> "PayoutAmount",
     value |-> DictGet(x.d, K_value, PyInt(0)),
     currency |-> DictGet(x.d, K_currency, S_TZS)]

\* Payout.from_dict(data): [raised, exc, v].  The five nested values are
\* read with data.get(key, {}) and then with .get(...): AttributeError for
\* one that is present and no dict.
Payout_from_dict(data) ==
    IF ~HasGet(data)
    THEN [raised |-> TRUE, exc |-> PyError("AttributeError"), v |-> PyNone]
    ELSE LET d == data.d
             amount_data == DictGet(d, K_amount, PyDict(EmptyDict))
             fees_data == DictGet(d, K_fees, PyDict(EmptyDict))
             total_data == DictGet(d, K_total, PyDict(EmptyDict))
             channel_data == DictGet(d, K_channel, PyDict(EmptyDict))
             recipient_data == DictGet(d, K_recipient, PyDict(EmptyDict))
         IN  IF \E x \in {amount_data, fees_data, total_data, channel_data,
                           recipient_data} : ~HasGet(x)
             THEN [raised |-> TRUE, exc |-> PyError("AttributeError"),
                   v |-> PyNone]
             ELSE [raised |-> FALSE, exc |-> PyNone,
                   v |-> [t |-> "Payout",
                          reference |-> DictGet(d, K_reference, S_empty),
                          status |-> DictGet(d, K_status, S_pending),
                          amount |-> PayoutAmount(amount_data),
                          fees |-> PayoutAmount(fees_data),
                          total |-> PayoutAmount(total_data),
                          channel |->
                              [t |-> "PayoutChannel",
                               type |-> DictGet(channel_data.d, K_type, S_empty),
                               provider |->
                                   DictGet(channel_data.d, K_provider, S_empty)],
                          recipient |->
                              [t |-> "PayoutRecipient",
                               name |-> DictGet(recipient_data.d, K_name, S_empty),
                               phone |-> DictGet(recipient_data.d, K_phone, PyNone),
                               bank |-> DictGet(recipient_data.d, K_bank, PyNone),
                               account |->
                                   DictGet(recipient_data.d, K_account, PyNone)],
                          narration |-> DictGet(d, K_narration, PyNone),
                          created_at |-> DictGet(d, K_created_at, PyNone),
                          completed_at |-> DictGet(d, K_completed_at, PyNone),
                          external_reference |->
                              DictGet(d, K_external_reference, PyNone),
                          id |-> DictGet(d, K_id, PyNone),
                          metadata |-> DictGet(d, K_metadata, PyNone),
                          source |-> DictGet(d, K_source, PyNone),
                          failure_reason |->
                              DictGet(d, K_failure_reason, PyNone)]]


(***************************************************************************)
(* What a method sends: Customer.to_dict, PaymentDetails.to_dict and the   *)
(* payloads of _create_payment and create_mobile_payout.                   *)
(***************************************************************************)
K_firstname == <<"f","i","r","s","t","n","a","m","e">>
K_lastname == <<"l","a","s","t","n","a","m","e">>
K_email == <<"e","m","a","i","l">>
K_address == <<"a","d","d","r","e","s","s">>
K_city == <<"c","i","t","y">>
K_state == <<"s","t","a","t","e">>
K_postcode == <<"p","o","s","t","c","o","d","e">>
K_country == <<"c","o","u","n","t","r","y">>
K_details == <<"d","e","t","a","i","l","s">>
K_phone_number == <<"p","h","o","n","e","_","n","u","m","b","e","r">>
K_callback_url == <<"c","a","l","l","b","a","c","k","_","u","r","l">>
K_recipient_name == <<"r","e","c","i","p","i","e","n","t","_","n","a","m","e">>
K_recipient_phone == <<"r","e","c","i","p","i","e","n","t","_","p","h","o","n","e">>

\* if x: for an Optional[str]
Truthy(x) == x.t = "str" /\ x.s # <<>>

\* if v: data[k] = v
PutIfSet(d, k, v) == IF Truthy(v) THEN DictPut(d, k, v) ELSE d

\* Customer(firstname, lastname, email=None, ..., phone=None)
Customer(firstname, lastname) ==
    [t |-> "Customer", firstname |-> firstname, lastname |-> lastname,
     email |-> PyNone, address |-> PyNone, city |-> PyNone, state |-> PyNone,
     postcode |-> PyNone, country |-> PyNone, phone |-> PyNone]

\* Customer.to_dict(): firstname and lastname, then email, address, city,
\* state, postcode and country when set.  phone is not among the fields it
\* writes.
Customer_to_dict(self) ==
    LET d0 == DictPut(DictPut(EmptyDict, K_firstname, self.firstname),
                      K_lastname, self.lastname)
        d1 == PutIfSet(d0, K_email, self.email)
        d2 == PutIfSet(d1, K_address, self.address)
        d3 == PutIfSet(d2, K_city, self.city)
        d4 == PutIfSet(d3, K_state, self.state)
        d5 == PutIfSet(d4, K_postcode, self.postcode)
        d6 == PutIfSet(d5, K_country, self.country)
    IN  PyDict(d6)

\* PaymentDetails(amount, currency, callback_url).to_dict()
PaymentDetails_to_dict(amount, currency, callback_url) ==
    PyDict(PutIfSet(DictPut(DictPut(EmptyDict, K_amount, amount),
                            K_currency, currency),
                    K_callback_url, callback_url))

\* payload of _create_payment, without webhook_url and metadata
payment_payload(payment_type, amount, currency, phone_number, customer) ==
    PyDict(
        DictPut(
            DictPut(
                DictPut(
                    DictPut(EmptyDict, K_payment_type, payment_type),
                    K_details,
                    PaymentDetails_to_dict(amount, currency, PyNone)),
                K_phone_number, phone_number),
            K_customer, Customer_to_dict(customer)))

\* payload of create_mobile_payout, without narration, webhook_url, metadata
payout_payload(amount, recipient_name, recipient_phone) ==
    PyDict(
        DictPut(
            DictPut(
                DictPut(
                    DictPut(EmptyDict, K_amount, amount),
                    K_channel, PyStr(<<"m","o","b","i","l","e">>)),
                K_recipient_name, recipient_name),
            K_recipient_phone, recipient_phone))

(***************************************************************************)
(* Inputs of the client: what a server may answer                          *)
(***************************************************************************)
sk_test == <<"s","k","_","t","e","s","t">>
BASE_URL == <<"h","t","t","p","s",":","/","/","a","p","i",".","s","n","i","p","p",
    "e",".","s","h","/","a","p","i","/","v","1">>
localhost == <<"h","t","t","p",":","/","/","l","o","c","a","l","h","o","s","t">>

\* response.status_code
Statuses ==
    {100, 199, 200, 201, 202, 204, 302, 400, 401, 402, 403, 404, 409, 418, 422,
     429, 499, 500, 503, 599}

\* The amount and the currency of a payment as they stand in a body.
AmountTexts == { <<"5","0","0">>, <<"0">>, <<"-","5">> }
CurrencyTexts == { <<"K","E","S">>, <<"U","S","D">> }

\* {"reference":"r1","amount":v,"currency":"c"}
FlatPayment(v, c) ==
    <<"{","\"","r","e","f","e","r","e","n","c","e","\"",":","\"","r","1",
    "\"",",","\"","a","m","o","u","n","t","\"",":">>
    \o v \o <<",","\"","c","u","r","r","e","n","c","y","\"",":","\"">> \o c
    \o <<"\"","}">>

\* {"reference":"r1","amount":{"value":v,"currency":"c"}
NestedPayment(v, c) ==
    <<"{","\"","r","e","f","e","r","e","n","c","e","\"",":","\"","r","1",
    "\"",",","\"","a","m","o","u","n","t","\"",":","{","\"","v","a","l","u",
    "e","\"",":">>
    \o v \o <<",","\"","c","u","r","r","e","n","c","y","\"",":","\"">> \o c
    \o <<"\"","}","}">>

\* body wrapped as {"data":body}
Wrapped(body) == <<"{","\"","d","a","t","a","\"",":">> \o body \o <<"}">>

PayoutBody ==
    <<"{","\"","r","e","f","e","r","e","n","c","e","\"",":","\"","p","o",
    "_","1","\"",",","\"","s","t","a","t","u","s","\"",":","\"","c","o","m",
    "p","l","e","t","e","d","\"",",","\"","a","m","o","u","n","t","\"",":",
    "{","\"","v","a","l","u","e","\"",":","5","0","0",",","\"","c","u","r",
    "r","e","n","c","y","\"",":","\"","T","Z","S","\"","}",",","\"","f","e",
    "e","s","\"",":","{","\"","v","a","l","u","e","\"",":","1","0","}",",",
    "\"","c","h","a","n","n","e","l","\"",":","{","\"","t","y","p","e","\"",
    ":","\"","m","o","b","i","l","e","\"","}",",","\"","r","e","c","i","p",
    "i","e","n","t","\"",":","{","\"","n","a","m","e","\"",":","\"","A",
    "\"",",","\"","p","h","o","n","e","\"",":","\"","2","5","5","\"","}",
    "}">>
FlatPayoutBody ==
    <<"{","\"","r","e","f","e","r","e","n","c","e","\"",":","\"","p","o",
    "_","1","\"",",","\"","a","m","o","u","n","t","\"",":","5","0","0",",",
    "\"","c","u","r","r","e","n","c","y","\"",":","\"","T","Z","S","\"",
    "}">>
BalanceBody ==
    <<"{","\"","a","v","a","i","l","a","b","l","e","_","b","a","l","a","n",
    "c","e","\"",":","9","0","0",",","\"","b","a","l","a","n","c","e","\"",
    ":","1","0","0","0",",","\"","c","u","r","r","e","n","c","y","\"",":",
    "\"","U","G","X","\"","}">>
ErrorBody ==
    <<"{","\"","m","e","s","s","a","g","e","\"",":","\"","b","a","d"," ",
    "k","e","y","\"",",","\"","e","r","r","o","r","_","c","o","d","e","\"",
    ":","\"","A","U","T","H","_","0","0","1","\"","}">>

\* Payments whose amount lacks a part: a nested amount without value, without
\* currency (with and without a top-level currency), a plain amount without
\* currency, an amount that is null; a body whose optional fields are
\* returned as "".
AmountWithoutValue ==
    <<"{","\"","a","m","o","u","n","t","\"",":","{","\"","c","u","r","r",
      "e","n","c","y","\"",":","\"","K","E","S","\"","}","}">>
AmountWithoutCurrency ==
    <<"{","\"","a","m","o","u","n","t","\"",":","{","\"","v","a","l","u",
      "e","\"",":","5","0","0","}",",","\"","c","u","r","r","e","n","c","y",
      "\"",":","\"","K","E","S","\"","}">>
AmountValueOnly ==
    <<"{","\"","a","m","o","u","n","t","\"",":","{","\"","v","a","l","u",
      "e","\"",":","5","0","0","}","}">>
PlainAmountOnly ==
    <<"{","\"","a","m","o","u","n","t","\"",":","5","0","0","}">>
NullAmount ==
    <<"{","\"","a","m","o","u","n","t","\"",":","n","u","l","l","}">>
EmptyOptionals ==
    <<"{","\"","p","a","y","m","e","n","t","_","u","r","l","\"",":","\"",
      "\"",",","\"","n","a","r","r","a","t","i","o","n","\"",":","\"","\"",
      "}">>
PartialBodies ==
    {AmountWithoutValue, AmountWithoutCurrency, AmountValueOnly,
     PlainAmountOnly, NullAmount, EmptyOptionals}

\* response.text: payments in both shapes, bare and wrapped in "data"; a
\* payout, nested and flat; a balance; error envelopes, whole, without
\* message, without error_code, with a message that is no string; an empty
\* object; "data" that is null; JSON that is no object; text that is no JSON;
\* no text at all; the bodies that lack a part.
ResponseTexts ==
    {FlatPayment(v, c) : v \in AmountTexts, c \in CurrencyTexts}
    \cup {Wrapped(NestedPayment(v, c)) : v \in AmountTexts, c \in CurrencyTexts}
    \cup { Wrapped(PayoutBody), FlatPayoutBody, Wrapped(BalanceBody),
            Wrapped(<<"{","\"","r","e","f","e","r","e","n","c","e","\"",":","\"","r","1","\"","}">>),
            ErrorBody,
            <<"{","\"","e","r","r","o","r","_","c","o","d","e","\"",":","\"","E","4","2","\"","}">>,
            <<"{","\"","m","e","s","s","a","g","e","\"",":","\"","s","l","o","w"," ","d","o","w","n","\"","}">>,
            <<"{","\"","m","e","s","s","a","g","e","\"",":","4","2","}">>,
            <<"{","}">>,
            <<"{","\"","d","a","t","a","\"",":","n","u","l","l","}">>,
            <<"[","]">>,
            <<"n","u","l","l">>,
            <<"<","h","t","m","l",">","B","a","d"," ","G","a","t","e","w","a","y","<","/","h","t","m","l",">">>,
            <<>> }
    \cup PartialBodies

Responses == [status_code : Statuses, text : ResponseTexts]

References == { <<"r","1">>, <<"p","o","_","1">> }
IdempotencyKeys == {PyNone, PyStr(<<"k","1">>)}

\* The customers a payment is created for: the two names alone; with email
\* and phone, as src/test_payment.py creates one; with every field set; with
\* an email that is "".
John == Customer(PyStr(<<"J","o","h","n">>), PyStr(<<"D","o","e">>))
Customers ==
    { John,
      [John EXCEPT !.email = PyStr(<<"j","o","h","n","@","e","x","a","m","p","l","e",".","c","o","m">>),
                   !.phone = PyStr(<<"0","7","1","2","3","4","5","6","7","8">>)],
      [John EXCEPT !.email = PyStr(<<"j","o","h","n","@","e","x","a","m","p","l","e",".","c","o","m">>),
                   !.address = PyStr(<<"1"," ","M","a","i","n"," ","S","t">>),
                   !.city = PyStr(<<"D","a","r">>),
                   !.state = PyStr(<<"D","S","M">>),
                   !.postcode = PyStr(<<"1","1","1","0","1">>),
                   !.country = PyStr(<<"T","Z">>),
                   !.phone = PyStr(<<"0","7","1","2","3","4","5","6","7","8">>)],
      [John EXCEPT !.email = PyStr(<<>>), !.country = PyStr(<<"T","Z">>)] }

\* The API method calls of a run.
MaxRequests == 2

(***************************************************************************)
(* The client object and a call of one of its API methods.                 *)
(***************************************************************************)
\* httpx.Client(base_url=..., headers={"Authorization": f"Bearer {api_key}",
\* ...}, timeout=timeout)
httpx_Client(url, key) ==
    [base_url |-> url,
     Authorization |-> <<"B","e","a","r","e","r"," ">> \o key,
     Content_Type |-> <<"a","p","p","l","i","c","a","t","i","o","n","/","j","s","o","n">>]

NoResponse == [status_code |-> 0, text |-> <<>>]
NoRequest == [method |-> "", path |-> <<>>, headers |-> PyNone, json |-> PyNone]
ApiIdle ==
    [op |-> "idle", pc |-> "done", customer |-> PyNone,
     request |-> NoRequest, sent |-> 0,
     response |-> NoResponse, data |-> PyNone,
     outcome |-> "pending", exc |-> PyNone, value |-> PyNone,
     steps |-> <<>>]

(***************************************************************************)
(* The state machine.  A call is an activation record: its operation, its  *)
(* arguments and locals, the statement it is at (pc), how it ended         *)
(* (outcome, value), and the statements it went through (steps).           *)
(***************************************************************************)
Callers == {1}

Pending == [kind |-> "pending", exc |-> "", message |-> "", key |-> <<>>]
Returned == [kind |-> "return", exc |-> "", message |-> "", key |-> <<>>]
Raised(exc, message) ==
    [kind |-> "raise", exc |-> exc, message |-> message, key |-> <<>>]

Idle ==
    [op |-> "idle", pc |-> "done", handler |-> "shared",
     h_key |-> <<>>, h_tol |-> 0,
     payload |-> <<>>, signature |-> PyNone, timestamp |-> PyNone,
     data |-> PyNone, ts |-> NoInt, now |-> [sec |-> 0, half |-> 0],
     expected |-> PyNone, outcome |-> Pending, value |-> PyNone,
     steps |-> <<>>, resubmitted |-> FALSE]

\* self.signing_key and self.tolerance of the handler a call runs on: the
\* long-lived handler, or the one verify_webhook constructs for the call.
self_signing_key(c) ==
    IF calls[c].handler = "shared" THEN signing_key ELSE calls[c].h_key

\* The handler's tolerance ignored for the default.
self_tolerance_default(c) == DefaultTolerance

\* self.tolerance
self_tolerance(c) ==
    IF calls[c].handler = "shared" THEN tolerance ELSE calls[c].h_tol

Accepted(call) == call.pc = "done" /\ call.outcome.kind = "return"

Init ==
    /\ signing_key \in Keys
    /\ tolerance \in Tolerances
    /\ clock = [sec |-> Epoch, half |-> 0]
    /\ calls = [c \in Callers |-> Idle]
    /\ api_key = sk_test
    /\ base_url = BASE_URL
    /\ http_client = httpx_Client(base_url, api_key)
    /\ requests = <<>>
    /\ api = ApiIdle

\* Time passes.
Tick ==
    /\ \E r \in ClockReadings : Later(clock, r) /\ clock' = r
    /\ UNCHANGED <<signing_key, tolerance, calls, client_vars>>

\* handler.compute_signature(payload, timestamp)
call_compute_signature(c) ==
    /\ calls[c].op = "idle"
    /\ \E payload \in Bodies, timestamp \in Timestamps :
          calls' = [calls EXCEPT ![c] =
              [Idle EXCEPT !.op = "compute_signature",
                           !.payload = payload, !.timestamp = timestamp,
                           !.outcome = Returned,
                           !.value = compute_signature(
                                         signing_key, payload, timestamp),
                           !.steps = <<"hmac">>]]
    /\ UNCHANGED <<signing_key, tolerance, clock, client_vars>>

\* handler.parse(data)
call_parse(c) ==
    /\ calls[c].op = "idle"
    /\ \E data \in ParseInputs :
          LET r == from_dict(data)
          IN  calls' = [calls EXCEPT ![c] =
                  [Idle EXCEPT !.op = "parse", !.data = data,
                               !.outcome = IF r.exc = "" THEN Returned
                                           ELSE [Raised(r.exc, "") EXCEPT
                                                    !.key = r.key],
                               !.value = r.v,
                               !.steps = <<"from_dict">>]]
    /\ UNCHANGED <<signing_key, tolerance, clock, client_vars>>

\* handler.verify_signature(payload, signature, timestamp) is entered
call_verify_signature(c) ==
    /\ calls[c].op = "idle"
    /\ \E payload \in Bodies, timestamp \in Timestamps :
       \E signature \in Signatures(signing_key, payload, timestamp) :
          calls' = [calls EXCEPT ![c] =
              [Idle EXCEPT !.op = "verify_signature", !.pc = "int",
                           !.payload = payload, !.signature = signature,
                           !.timestamp = timestamp]]
    /\ UNCHANGED <<signing_key, tolerance, clock, client_vars>>

\* handler.verify_and_parse(body, signature, timestamp) is entered
call_verify_and_parse(c) ==
    /\ calls[c].op = "idle"
    /\ \E body \in Bodies, timestamp \in Timestamps :
       \E signature \in Signatures(signing_key, body, timestamp) :
          calls' = [calls EXCEPT ![c] =
              [Idle EXCEPT !.op = "verify_and_parse", !.pc = "int",
                           !.payload = body, !.signature = signature,
                           !.timestamp = timestamp]]
    /\ UNCHANGED <<signing_key, tolerance, clock, client_vars>>

\* The envelope that the caller's last verify_and_parse accepted is delivered
\* to the long-lived handler again: verify_and_parse is entered with the same
\* body, signature and timestamp.
Resubmit(c) ==
    /\ calls[c].op = "verify_and_parse"
    /\ Accepted(calls[c])
    /\ calls' = [calls EXCEPT ![c] =
           [Idle EXCEPT !.op = "verify_and_parse", !.pc = "int",
                        !.payload = calls[c].payload,
                        !.signature = calls[c].signature,
                        !.timestamp = calls[c].timestamp,
                        !.resubmitted = TRUE]]
    /\ UNCHANGED <<signing_key, tolerance, clock, client_vars>>

\* The caller is done with the outcome of its call and may call again.
Forget(c) ==
    /\ calls[c].op # "idle"
    /\ calls[c].pc = "done"
    /\ calls' = [calls EXCEPT ![c] = Idle]
    /\ UNCHANGED <<signing_key, tolerance, clock, client_vars>>

\* verify_webhook(body, signature, timestamp, signing_key, tolerance) is
\* entered: it constructs a handler of its own and calls verify_and_parse.
call_verify_webhook(c) ==
    /\ calls[c].op = "idle"
    /\ \E key \in Keys, tol \in {0, DefaultTolerance} :
       \E body \in Bodies, timestamp \in Timestamps :
       \E signature \in Signatures(key, body, timestamp) :
          calls' = [calls EXCEPT ![c] =
              [Idle EXCEPT !.op = "verify_webhook", !.pc = "int",
                           !.handler = "own", !.h_key = key, !.h_tol = tol,
                           !.payload = body, !.signature = signature,
                           !.timestamp = timestamp]]
    /\ UNCHANGED <<signing_key, tolerance, clock, client_vars>>

\* Every failure raised as a class of its own, named after the statement.
Raise_by_stage(c, stage, exc, message) ==
    calls' = [calls EXCEPT ![c].pc = "done",
                           ![c].outcome = Raised(stage, message),
                           ![c].steps = Append(@, stage)]

\* The message of the exception names the key of the handler.
Raise_naming_key(c, stage, exc, message) ==
    calls' = [calls EXCEPT ![c].pc = "done",
                           ![c].outcome = [Raised(exc, message) EXCEPT
                                              !.key = self_signing_key(c)],
                           ![c].steps = Append(@, stage)]

\* raise exc(message) out of the call, from the statement named stage
Raise(c, stage, exc, message) ==
    calls' = [calls EXCEPT ![c].pc = "done",
                           ![c].outcome = Raised(exc, message),
                           ![c].steps = Append(@, stage)]

\* The except clause swallows the error and goes on with ts = 0.
IntTimestamp_swallowing(c) ==
    /\ calls[c].pc = "int"
    /\ calls' = [calls EXCEPT ![c].pc = "fresh",
                              ![c].ts = [int(calls[c].timestamp) EXCEPT
                                            !.exc = ""],
                              ![c].steps = Append(@, "int")]
    /\ UNCHANGED <<signing_key, tolerance, clock, client_vars>>

\* ts = int(timestamp), or WebhookVerificationError("Invalid timestamp")
IntTimestamp(c) ==
    /\ calls[c].pc = "int"
    /\ LET r == int(calls[c].timestamp)
       IN  IF r.exc \in {"ValueError", "TypeError"}
           THEN Raise(c, "int", "WebhookVerificationError", "Invalid timestamp")
           ELSE calls' = [calls EXCEPT ![c].pc = "fresh", ![c].ts = r,
                                       ![c].steps = Append(@, "int")]
    /\ UNCHANGED <<signing_key, tolerance, clock, client_vars>>

\* if abs(time.time() - ts) > self.tolerance: raise
CheckFreshness(c) ==
    /\ calls[c].pc = "fresh"
    /\ IF float_overflow(calls[c].ts)
       THEN calls' = [calls EXCEPT
                ![c].pc = "done", ![c].now = clock,
                ![c].outcome = Raised("OverflowError", ""),
                ![c].steps = Append(@, "fresh")]
       ELSE IF timestamp_expired(clock, calls[c].ts, self_tolerance(c))
       THEN calls' = [calls EXCEPT
                ![c].pc = "done", ![c].now = clock,
                ![c].outcome = Raised("WebhookVerificationError",
                                      "Webhook timestamp expired"),
                ![c].steps = Append(@, "fresh")]
       ELSE calls' = [calls EXCEPT ![c].pc = "hmac", ![c].now = clock,
                                   ![c].steps = Append(@, "fresh")]
    /\ UNCHANGED <<signing_key, tolerance, clock, client_vars>>

\* The arguments of compute_signature in the wrong order.
ComputeExpected_swapped(c) ==
    /\ calls[c].pc = "hmac"
    /\ calls' = [calls EXCEPT
           ![c].pc = "compare",
           ![c].expected = compute_signature(
               self_signing_key(c), fstr(calls[c].timestamp),
               PyStr(calls[c].payload)),
           ![c].steps = Append(@, "hmac")]
    /\ UNCHANGED <<signing_key, tolerance, clock, client_vars>>

\* The handler keeps the payload and the timestamp of the call that entered
\* last in attributes of its own, and computes the digest from them.
ComputeExpected_of_attributes(c) ==
    /\ calls[c].pc = "hmac"
    /\ LET others == {o \in DOMAIN calls \ {c} : calls[o].op # "idle"}
           last == IF others = {} THEN c ELSE CHOOSE o \in others : TRUE
       IN  calls' = [calls EXCEPT
               ![c].pc = "compare",
               ![c].expected = compute_signature(
                   self_signing_key(c), calls[last].payload,
                   calls[last].timestamp),
               ![c].steps = Append(@, "hmac")]
    /\ UNCHANGED <<signing_key, tolerance, clock, client_vars>>

\* expected = self.compute_signature(payload, timestamp)
ComputeExpected(c) ==
    /\ calls[c].pc = "hmac"
    /\ calls' = [calls EXCEPT
           ![c].pc = "compare",
           ![c].expected = compute_signature(
               self_signing_key(c), calls[c].payload, calls[c].timestamp),
           ![c].steps = Append(@, "hmac")]
    /\ UNCHANGED <<signing_key, tolerance, clock, client_vars>>

\* The digests are compared and a mismatch is not raised.
CompareDigest_unchecked(c) ==
    /\ calls[c].pc = "compare"
    /\ IF calls[c].op = "verify_signature"
       THEN calls' = [calls EXCEPT ![c].pc = "done",
                                   ![c].outcome = Returned,
                                   ![c].value = PyBool(TRUE),
                                   ![c].steps = Append(@, "compare")]
       ELSE calls' = [calls EXCEPT ![c].pc = "loads",
                                   ![c].steps = Append(@, "compare")]
    /\ UNCHANGED <<signing_key, tolerance, clock, client_vars>>

\* if not hmac.compare_digest(expected, signature): raise; return True
CompareDigest(c) ==
    /\ calls[c].pc = "compare"
    /\ LET r == compare_digest(calls[c].expected, calls[c].signature)
       IN  IF r.exc # ""
           THEN Raise(c, "compare", r.exc, "")
           ELSE IF ~r.eq
           THEN Raise(c, "compare", "WebhookVerificationError",
                      "Invalid signature")
           ELSE IF calls[c].op = "verify_signature"
           THEN calls' = [calls EXCEPT ![c].pc = "done",
                                       ![c].outcome = Returned,
                                       ![c].value = PyBool(TRUE),
                                       ![c].steps = Append(@, "compare")]
           ELSE calls' = [calls EXCEPT ![c].pc = "loads",
                                       ![c].steps = Append(@, "compare")]
    /\ UNCHANGED <<signing_key, tolerance, clock, client_vars>>

\* A body that is no JSON reported as a verification failure.
JsonLoads_wrapped(c) ==
    /\ calls[c].pc = "loads"
    /\ LET r == json_loads(calls[c].payload)
       IN  IF r.exc # ""
           THEN Raise(c, "loads", "WebhookVerificationError", "Invalid payload")
           ELSE calls' = [calls EXCEPT ![c].pc = "from_dict", ![c].data = r.v,
                                       ![c].steps = Append(@, "loads")]
    /\ UNCHANGED <<signing_key, tolerance, clock, client_vars>>

\* data = json.loads(body)
JsonLoads(c) ==
    /\ calls[c].pc = "loads"
    /\ LET r == json_loads(calls[c].payload)
       IN  IF r.exc # ""
           THEN Raise(c, "loads", r.exc, "")
           ELSE calls' = [calls EXCEPT ![c].pc = "from_dict", ![c].data = r.v,
                                       ![c].steps = Append(@, "loads")]
    /\ UNCHANGED <<signing_key, tolerance, clock, client_vars>>

\* return self.parse(data)
Parse(c) ==
    /\ calls[c].pc = "from_dict"
    /\ LET r == from_dict(calls[c].data)
       IN  calls' = [calls EXCEPT
               ![c].pc = "done",
               ![c].outcome = IF r.exc = "" THEN Returned
                              ELSE [Raised(r.exc, "") EXCEPT !.key = r.key],
               ![c].value = r.v,
               ![c].steps = Append(@, "from_dict")]
    /\ UNCHANGED <<signing_key, tolerance, clock, client_vars>>

Next ==
    \/ Tick
    \/ \E c \in Callers :
          \/ call_compute_signature(c)
          \/ call_parse(c)
          \/ call_verify_signature(c)
          \/ call_verify_and_parse(c)
          \/ call_verify_webhook(c)
          \/ Resubmit(c)
          \/ Forget(c)
          \/ IntTimestamp(c)
          \/ CheckFreshness(c)
          \/ ComputeExpected(c)
          \/ CompareDigest(c)
          \/ JsonLoads(c)
          \/ Parse(c)

Spec == Init /\ [][Next]_vars

(***************************************************************************)
(* One handler shared by two workers: webhooks are verified concurrently,  *)
(* on the long-lived handler and on the handler verify_webhook constructs. *)
(***************************************************************************)
Workers == {1, 2}

ConcurrentInit ==
    /\ signing_key = whsec_test
    /\ tolerance = DefaultTolerance
    /\ clock = [sec |-> Epoch, half |-> 0]
    /\ calls = [c \in Workers |-> Idle]
    /\ api_key = sk_test
    /\ base_url = BASE_URL
    /\ http_client = httpx_Client(base_url, api_key)
    /\ requests = <<>>
    /\ api = ApiIdle

\* A worker enters handler.verify_and_parse(body, signature, timestamp) on
\* the shared handler.
deliver_verify_and_parse(c) ==
    /\ calls[c].op = "idle"
    /\ \E w \in Deliveries :
          calls' = [calls EXCEPT ![c] =
              [Idle EXCEPT !.op = "verify_and_parse", !.pc = "int",
                           !.payload = w.payload, !.signature = w.signature,
                           !.timestamp = w.timestamp]]
    /\ UNCHANGED <<signing_key, tolerance, clock, client_vars>>

\* A worker enters verify_webhook(body, signature, timestamp, signing_key,
\* tolerance) with the other signing key and the same tolerance.
deliver_verify_webhook(c) ==
    /\ calls[c].op = "idle"
    /\ \E w \in Deliveries :
          calls' = [calls EXCEPT ![c] =
              [Idle EXCEPT !.op = "verify_webhook", !.pc = "int",
                           !.handler = "own",
                           !.h_key = OtherKey(signing_key),
                           !.h_tol = tolerance,
                           !.payload = w.payload, !.signature = w.signature,
                           !.timestamp = w.timestamp]]
    /\ UNCHANGED <<signing_key, tolerance, clock, client_vars>>

ConcurrentNext ==
    \/ Tick
    \/ \E c \in Workers :
          \/ deliver_verify_and_parse(c)
          \/ deliver_verify_webhook(c)
          \/ Forget(c)
          \/ IntTimestamp(c)
          \/ CheckFreshness(c)
          \/ ComputeExpected(c)
          \/ CompareDigest(c)
          \/ JsonLoads(c)
          \/ Parse(c)

ConcurrentSpec == ConcurrentInit /\ [][ConcurrentNext]_vars

(***************************************************************************)
(* The API methods: one request, _handle_response, from_dict.              *)
(***************************************************************************)
ClientInit ==
    /\ signing_key = whsec_test
    /\ tolerance = DefaultTolerance
    /\ clock = [sec |-> Epoch, half |-> 0]
    /\ calls = [c \in Callers |-> Idle]
    /\ api_key = sk_test
    /\ base_url \in {BASE_URL, localhost}
    /\ http_client = httpx_Client(base_url, api_key)
    /\ requests = <<>>
    /\ api = ApiIdle

\* The record of a method that has been entered and is about to send.
Entered(op, method, path, headers, json) ==
    [ApiIdle EXCEPT !.op = op, !.pc = "request",
                    !.request = [method |-> method, path |-> path,
                                 headers |-> headers, json |-> json]]

\* client.get_payment(reference)
call_get_payment ==
    /\ api.op = "idle"
    /\ Len(requests) < MaxRequests
    /\ \E reference \in References :
          api' = Entered("get_payment", "GET",
                         <<"/","p","a","y","m","e","n","t","s","/">>
                             \o reference,
                         PyNone, PyNone)
    /\ UNCHANGED <<webhook_vars, api_key, base_url, http_client, requests>>

\* client.get_balance()
call_get_balance ==
    /\ api.op = "idle"
    /\ Len(requests) < MaxRequests
    /\ api' = Entered("get_balance", "GET",
                      <<"/","p","a","y","m","e","n","t","s","/",
                        "b","a","l","a","n","c","e">>,
                      PyNone, PyNone)
    /\ UNCHANGED <<webhook_vars, api_key, base_url, http_client, requests>>

\* client.create_mobile_payout(..., idempotency_key): the header
\* Idempotency-Key is sent when the key is given.
call_create_mobile_payout ==
    /\ api.op = "idle"
    /\ Len(requests) < MaxRequests
    /\ \E idempotency_key \in IdempotencyKeys :
          api' = Entered("create_mobile_payout", "POST",
                         <<"/","p","a","y","o","u","t","s","/","s","e","n","d">>,
                         idempotency_key,
                         payout_payload(PyInt(500), PyStr(<<"A">>),
                                        PyStr(<<"2","5","5">>)))
    /\ UNCHANGED <<webhook_vars, api_key, base_url, http_client, requests>>

\* client.create_mobile_payment(amount, currency, phone_number, customer):
\* _create_payment("mobile", ...) builds the payload and is about to post it.
call_create_mobile_payment ==
    /\ api.op = "idle"
    /\ Len(requests) < MaxRequests
    /\ \E customer \in Customers :
          api' = [Entered("create_mobile_payment", "POST",
                          <<"/","p","a","y","m","e","n","t","s">>, PyNone,
                          payment_payload(PyStr(<<"m","o","b","i","l","e">>), PyInt(1000),
                                          S_TZS, PyStr(<<"0","7","1","2","3","4","5","6","7","8">>),
                                          customer))
                     EXCEPT !.customer = customer]
    /\ UNCHANGED <<webhook_vars, api_key, base_url, http_client, requests>>

\* response = self._client.get(...) or self._client.post(...): the request
\* goes out, and a response comes back or the transport raises.
SendRequest ==
    /\ api.pc = "request"
    /\ requests' = Append(requests, api.request)
    /\ \/ \E response \in Responses :
             api' = [api EXCEPT !.pc = "handle", !.sent = @ + 1,
                                !.response = response,
                                !.steps = Append(@, "request")]
       \/ api' = [api EXCEPT !.pc = "done", !.sent = @ + 1,
                             !.outcome = "raise",
                             !.exc = PyError("httpx.TransportError"),
                             !.steps = Append(@, "request")]
    /\ UNCHANGED <<webhook_vars, api_key, base_url, http_client>>

\* _handle_response that sends the request again after a server error.
HandleResponse_retrying ==
    /\ api.pc = "handle"
    /\ LET r == handle_response(api.response)
       IN  IF r.raised /\ r.exc.class = "ServerError" /\ api.sent < 2
           THEN api' = [api EXCEPT !.pc = "request",
                                   !.steps = Append(@, "handle")]
           ELSE IF r.raised
           THEN api' = [api EXCEPT !.pc = "done", !.outcome = "raise",
                                   !.exc = r.exc,
                                   !.steps = Append(@, "handle")]
           ELSE api' = [api EXCEPT !.pc = "from_dict", !.data = r.v,
                                   !.steps = Append(@, "handle")]
    /\ UNCHANGED <<webhook_vars, api_key, base_url, http_client, requests>>

\* data = self._handle_response(response)
HandleResponse ==
    /\ api.pc = "handle"
    /\ LET r == handle_response(api.response)
       IN  IF r.raised
           THEN api' = [api EXCEPT !.pc = "done", !.outcome = "raise",
                                   !.exc = r.exc,
                                   !.steps = Append(@, "handle")]
           ELSE api' = [api EXCEPT !.pc = "from_dict", !.data = r.v,
                                   !.steps = Append(@, "handle")]
    /\ UNCHANGED <<webhook_vars, api_key, base_url, http_client, requests>>

\* return Payment.from_dict(data), Balance.from_dict(data) or
\* Payout.from_dict(data)
FromDict ==
    /\ api.pc = "from_dict"
    /\ LET r == CASE api.op \in {"get_payment", "create_mobile_payment"} ->
                         Payment_from_dict(api.data)
                  [] api.op = "get_balance" -> Balance_from_dict(api.data)
                  [] OTHER -> Payout_from_dict(api.data)
       IN  IF r.raised
           THEN api' = [api EXCEPT !.pc = "done", !.outcome = "raise",
                                   !.exc = r.exc,
                                   !.steps = Append(@, "from_dict")]
           ELSE api' = [api EXCEPT !.pc = "done", !.outcome = "return",
                                   !.value = r.v,
                                   !.steps = Append(@, "from_dict")]
    /\ UNCHANGED <<webhook_vars, api_key, base_url, http_client, requests>>

\* The caller is done with the outcome and may call again.
ApiForget ==
    /\ api.op # "idle"
    /\ api.pc = "done"
    /\ api' = ApiIdle
    /\ UNCHANGED <<webhook_vars, api_key, base_url, http_client, requests>>

ClientNext ==
    \/ call_get_payment
    \/ call_get_balance
    \/ call_create_mobile_payout
    \/ SendRequest
    \/ HandleResponse
    \/ FromDict
    \/ ApiForget

ClientSpec == ClientInit /\ [][ClientNext]_vars

\* The client used to create payments.
PaymentNext ==
    \/ call_create_mobile_payment
    \/ SendRequest
    \/ HandleResponse
    \/ FromDict
    \/ ApiForget

PaymentSpec == ClientInit /\ [][PaymentNext]_vars

(***************************************************************************)
(* The vocabulary of the properties.  These read a call's record and the   *)
(* handler's fields directly, so that a property does not lean on the      *)
(* operators of the pipeline it is about.                                  *)
(***************************************************************************)
Range(seq) == {seq[i] : i \in 1..Len(seq)}

\* The calls that run the verification pipeline, and those that go on to parse.
VerifyCalls ==
    {calls[c] : c \in {x \in Callers :
        calls[x].op \in {"verify_signature", "verify_and_parse", "verify_webhook"}}}
PipelineCalls == {call \in VerifyCalls : call.op # "verify_signature"}
Done(call) == call.pc = "done"

KeyOf(call) == IF call.handler = "shared" THEN signing_key ELSE call.h_key
ToleranceOf(call) == IF call.handler = "shared" THEN tolerance ELSE call.h_tol

Parses(timestamp) == int(timestamp).exc = ""
ReadClock(call) == "fresh" \in Range(call.steps)
\* now - ts > tolerance and ts - now > tolerance, for the reading now = sec +
\* half/2 the call took and ts = int(timestamp).
TooOld(call) ==
    LET ts == int(call.timestamp)
        age == call.now.sec - ts.n
    IN  IF ts.digits > 10 THEN ts.neg
        ELSE \/ age > ToleranceOf(call)
             \/ (age = ToleranceOf(call) /\ call.now.half = 1)
TooNew(call) ==
    LET ts == int(call.timestamp)
    IN  IF ts.digits > 10 THEN ~ts.neg
        ELSE ts.n - call.now.sec > ToleranceOf(call)
OutOfWindow(call) == TooOld(call) \/ TooNew(call)

RightSignature(call) ==
    call.signature =
        hexdigest(encode(KeyOf(call)),
                  encode(fstr(call.timestamp) \o <<".">> \o call.payload))

Fails(call, message) ==
    /\ Done(call)
    /\ call.outcome.kind = "raise"
    /\ call.outcome.exc = "WebhookVerificationError"
    /\ call.outcome.message = message
InvalidTimestamp(call) == Fails(call, "Invalid timestamp")
TimestampExpired(call) == Fails(call, "Webhook timestamp expired")
InvalidSignature(call) == Fails(call, "Invalid signature")

\* The call got past the replay check; past the signature check.
PassedReplayCheck(call) == call.pc = "hmac" \/ "hmac" \in Range(call.steps)
PassedVerification(call) ==
    /\ "compare" \in Range(call.steps)
    /\ ~(Done(call) /\ call.outcome.kind = "raise" /\ Len(call.steps) = 4)
ReachedParse(call) ==
    call.pc \in {"loads", "from_dict"} \/ "loads" \in Range(call.steps)
        \/ "from_dict" \in Range(call.steps)

(***************************************************************************)
(* Properties                                                              *)
(***************************************************************************)

\* C1: the replay check runs before the signature check: a call whose
\* timestamp parses and lies outside the tolerance fails with "Webhook
\* timestamp expired" whatever the signature, and no signature is computed
\* or compared.
C1_ReplayCheckBeforeSignature ==
    \A call \in VerifyCalls :
        (Parses(call.timestamp) /\ ReadClock(call) /\ OutOfWindow(call))
            => /\ TimestampExpired(call)
               /\ Range(call.steps) = {"int", "fresh"}

\* A call with the right signature for a timestamp of 310 digits: the
\* timestamp parses and is outside the tolerance, and the call ends at the
\* replay check with OverflowError.
C1_Witness ==
    \E call \in VerifyCalls :
        /\ RightSignature(call)
        /\ Parses(call.timestamp) /\ ReadClock(call) /\ OutOfWindow(call)
        /\ Done(call) /\ call.outcome.exc = "OverflowError"
        /\ call.steps = <<"int", "fresh">>

\* C2: json.loads is never reached before authentication: a pipeline call
\* whose timestamp does not parse, or is outside the tolerance, or whose
\* signature is not the digest of timestamp.body, never reaches the parse
\* step and ends with an exception.
C2_NoParseBeforeAuthentication ==
    \A call \in PipelineCalls :
        (\/ ~Parses(call.timestamp)
         \/ (ReadClock(call) /\ OutOfWindow(call))
         \/ ~RightSignature(call))
            => /\ ~ReachedParse(call)
               /\ call.data = PyNone
               /\ Done(call) => call.outcome.kind = "raise"

C2_Witness ==
    \E call \in PipelineCalls :
        /\ Parses(call.timestamp) /\ ReadClock(call) /\ ~OutOfWindow(call)
        /\ ~RightSignature(call)
        /\ InvalidSignature(call)
        /\ call.steps = <<"int", "fresh", "hmac", "compare">>

\* C3 as claimed: every WebhookPayload that a public operation returns was
\* built from data whose signature was verified.
C3_PayloadOnlyAfterVerification ==
    \A c \in Callers :
        calls[c].value.t = "WebhookPayload"
            => /\ PassedVerification(calls[c])
               /\ RightSignature(calls[c])

\* C3 as amended: a WebhookPayload returned by verify_and_parse or
\* verify_webhook was built, by from_dict of the parsed body, after the
\* replay check and the signature check passed for that body;
\* compute_signature and verify_signature return no WebhookPayload.
C3_PipelinePayloadOnlyAfterVerification ==
    \A c \in Callers :
        (calls[c].value.t = "WebhookPayload" /\ calls[c].op # "parse")
            => /\ calls[c] \in PipelineCalls
               /\ Parses(calls[c].timestamp) /\ ~OutOfWindow(calls[c])
               /\ RightSignature(calls[c])
               /\ calls[c].steps =
                      <<"int", "fresh", "hmac", "compare", "loads", "from_dict">>
               /\ json_loads(calls[c].payload).exc = ""
               /\ calls[c].data = json_loads(calls[c].payload).v

C3_Witness ==
    \E call \in PipelineCalls :
        /\ Done(call) /\ call.outcome.kind = "return"
        /\ call.value.t = "WebhookPayload"
        /\ RightSignature(call)

\* C4 as claimed: a resubmission of an accepted body, signature and
\* timestamp to the same handler is rejected.
C4_ResubmissionRejected ==
    \A c \in Callers :
        (calls[c].resubmitted /\ Done(calls[c]))
            => calls[c].outcome.kind = "raise"

\* C4 as amended: a resubmission is rejected only by its age: it fails with
\* "Webhook timestamp expired" when the timestamp is outside the tolerance
\* at the time of the resubmission, and is accepted again otherwise.
C4_ResubmissionRejectedOnlyWhenExpired ==
    \A c \in Callers :
        (calls[c].resubmitted /\ Done(calls[c]))
            => IF OutOfWindow(calls[c])
               THEN TimestampExpired(calls[c])
               ELSE /\ calls[c].outcome.kind = "return"
                    /\ calls[c].value.t = "WebhookPayload"

C4_Witness ==
    \E c \in Callers :
        /\ calls[c].resubmitted
        /\ TimestampExpired(calls[c])

\* C5 as claimed: for any body B, timestamp T and key, verifying B against
\* compute_signature(B, T) and T under the same key succeeds.
C5_RoundTrip ==
    \A call \in VerifyCalls :
        (RightSignature(call) /\ Done(call)) => PassedVerification(call)

\* C5 as amended: the round trip succeeds when T parses as an integer that
\* is within the tolerance of the clock at verification; for a T that does
\* not parse it fails with "Invalid timestamp", for a T outside the
\* tolerance with "Webhook timestamp expired" (OverflowError when T is
\* beyond the range of a float).
C5_RoundTripOfFreshTimestamp ==
    \A call \in VerifyCalls :
        (RightSignature(call) /\ Done(call))
            => /\ (Parses(call.timestamp) /\ ~OutOfWindow(call))
                      => /\ PassedVerification(call)
                         /\ call.op = "verify_signature"
                                => /\ call.outcome.kind = "return"
                                   /\ call.value = PyBool(TRUE)
               /\ ~Parses(call.timestamp) => InvalidTimestamp(call)
               /\ (Parses(call.timestamp) /\ OutOfWindow(call))
                      => IF int(call.timestamp).digits > 309
                         THEN /\ call.outcome.kind = "raise"
                              /\ call.outcome.exc = "OverflowError"
                         ELSE TimestampExpired(call)

C5_Witness ==
    \E call \in VerifyCalls :
        /\ call.op = "verify_signature"
        /\ RightSignature(call)
        /\ Done(call) /\ call.outcome.kind = "return"
        /\ call.value = PyBool(TRUE)

\* C6: a supplied signature that is not the computed one (the digest of
\* another body, such as the body with one byte flipped, of another
\* timestamp or key, or any other string) fails with "Invalid signature"
\* once the timestamp has passed the replay check.
C6_WrongSignatureIsInvalidSignature ==
    \A call \in VerifyCalls :
        (/\ Done(call)
         /\ Parses(call.timestamp) /\ ~OutOfWindow(call)
         /\ ~RightSignature(call))
            => InvalidSignature(call)

\* A fresh timestamp and a signature that is not ASCII: the call ends with
\* the TypeError of hmac.compare_digest.
C6_Witness ==
    \E call \in VerifyCalls :
        /\ Done(call)
        /\ Parses(call.timestamp) /\ ~OutOfWindow(call)
        /\ ~RightSignature(call) /\ ~IsAscii(call.signature)
        /\ call.outcome.kind = "raise" /\ call.outcome.exc = "TypeError"
        /\ call.steps = <<"int", "fresh", "hmac", "compare">>

\* C7: a timestamp passes the replay check exactly when |now - timestamp| <=
\* tolerance; with tolerance 300 a distance of exactly 300 seconds passes and
\* a distance of 301 seconds fails with "Webhook timestamp expired".
C7_ReplayWindowBoundary ==
    \A call \in VerifyCalls :
        ReadClock(call)
            => LET ts == int(call.timestamp)
                   now == call.now
                   tol == ToleranceOf(call)
                   within ==
                       /\ ts.digits <= 10
                       /\ now.sec - ts.n <= tol
                       /\ ts.n - now.sec <= tol
                       /\ ~(now.sec - ts.n = tol /\ now.half = 1)
                   distance(ds) ==
                       /\ ts.digits <= 10
                       /\ tol = 300 /\ now.half = 0 /\ now.sec - ts.n \in ds
               IN  /\ PassedReplayCheck(call) <=> within
                   /\ distance({300, -300}) => PassedReplayCheck(call)
                   /\ distance({301, -301}) => TimestampExpired(call)

C7_Witness ==
    \E call \in VerifyCalls :
        /\ ToleranceOf(call) = 300
        /\ call.now.half = 0
        /\ call.now.sec - int(call.timestamp).n = 300
        /\ PassedReplayCheck(call)
        /\ Done(call)

\* C8 as claimed: with now = 1700000300, tolerance = 300 and timestamp
\* "1700000000" the replay check fails with "Webhook timestamp expired".
C8_ExpiredAtDistance300 ==
    \A call \in VerifyCalls :
        (/\ ReadClock(call)
         /\ call.now = [sec |-> 1700000300, half |-> 0]
         /\ ToleranceOf(call) = 300
         /\ call.timestamp = PyStr(<<"1","7","0","0","0","0","0","0","0","0">>))
            => TimestampExpired(call)

\* C8 as amended: with now = 1700000300 and tolerance = 300 the timestamp
\* "1700000000" (distance 300) passes the replay check, and the timestamp
\* "1699999999" (distance 301) fails with "Webhook timestamp expired".
C8_PassesAtDistance300 ==
    \A call \in VerifyCalls :
        (/\ ReadClock(call)
         /\ call.now = [sec |-> 1700000300, half |-> 0]
         /\ ToleranceOf(call) = 300)
            => /\ call.timestamp =
                      PyStr(<<"1","7","0","0","0","0","0","0","0","0">>)
                  => /\ ~TimestampExpired(call)
                     /\ "hmac" \in Range(call.steps) \/ call.pc = "hmac"
               /\ call.timestamp =
                      PyStr(<<"1","6","9","9","9","9","9","9","9","9">>)
                  => TimestampExpired(call)

C8_Witness ==
    \E call \in VerifyCalls :
        /\ call.now = [sec |-> 1700000300, half |-> 0]
        /\ ToleranceOf(call) = 300
        /\ call.timestamp = PyStr(<<"1","7","0","0","0","0","0","0","0","0">>)
        /\ "hmac" \in Range(call.steps)

\* C9: the replay check is symmetric: a timestamp more than tolerance
\* seconds after now fails with the same "Webhook timestamp expired" as one
\* more than tolerance seconds before now.
C9_ReplayCheckSymmetric ==
    \A call \in VerifyCalls :
        ReadClock(call)
            => /\ TooNew(call) => TimestampExpired(call)
               /\ TooOld(call) => TimestampExpired(call)

\* A timestamp of 310 digits, further in the future than any tolerance: the
\* call ends with OverflowError.
C9_Witness ==
    \E call \in VerifyCalls :
        /\ ReadClock(call) /\ TooNew(call)
        /\ Done(call) /\ call.outcome.kind = "raise"
        /\ call.outcome.exc = "OverflowError"
        /\ ~TimestampExpired(call)

\* C10: a timestamp that does not parse as a base-10 integer fails with
\* "Invalid timestamp" at the first statement: the clock is not read and no
\* signature is computed or compared.
C10_InvalidTimestampFirst ==
    \A call \in VerifyCalls :
        (~Parses(call.timestamp) /\ call.steps # <<>>)
            => /\ InvalidTimestamp(call)
               /\ call.steps = <<"int">>
               /\ call.expected = PyNone

C10_Witness ==
    \E call \in VerifyCalls :
        /\ call.timestamp = PyStr(<<"1", ".", "5">>)
        /\ InvalidTimestamp(call)

\* The call passed both checks and failed in json.loads or in from_dict.
ParseFailed(call) ==
    /\ Done(call) /\ call.outcome.kind = "raise"
    /\ PassedVerification(call)
    /\ call.steps[Len(call.steps)] \in {"loads", "from_dict"}

LastStep(call) == call.steps[Len(call.steps)]

EndToEnd(call) ==
    /\ Done(call)
    /\ KeyOf(call) = whsec_test
    /\ call.timestamp = T_epoch
    /\ call.now = [sec |-> Epoch, half |-> 0]
    /\ call.payload = PaymentCompletedBody

\* C13: in the end-to-end scenario every signature other than the HMAC-SHA256
\* hex of "1700000000." + body yields "Invalid signature", and the right
\* signature yields a WebhookPayload with event "payment.completed" and
\* amount.value 1000.
C13_EndToEnd ==
    \A call \in PipelineCalls :
        EndToEnd(call)
            => IF RightSignature(call)
               THEN /\ call.outcome.kind = "return"
                    /\ call.value.t = "WebhookPayload"
                    /\ call.value.event =
                           PyStr(<<"p","a","y","m","e","n","t",".",
                                   "c","o","m","p","l","e","t","e","d">>)
                    /\ call.value.amount.d[<<"v","a","l","u","e">>] = PyInt(1000)
               ELSE InvalidSignature(call)

\* The scenario with a signature that is not ASCII: the call ends with the
\* TypeError of hmac.compare_digest.
C13_Witness ==
    \E call \in PipelineCalls :
        /\ EndToEnd(call)
        /\ ~RightSignature(call)
        /\ call.outcome.kind = "raise" /\ call.outcome.exc = "TypeError"
        /\ LastStep(call) = "compare"

(***************************************************************************)
(* Properties of the API client                                            *)
(***************************************************************************)
\* The current call has been through _handle_response; it ended there.
Handled == "handle" \in Range(api.steps)
RaisedByHandleResponse ==
    /\ api.pc = "done" /\ api.outcome = "raise"
    /\ api.steps = <<"request", "handle">>

\* What json.loads makes of the response text; the text is a JSON object,
\* is no JSON.
Body == json_loads(api.response.text)
JsonObjectBody == LET b == Body IN b.exc = "" /\ b.v.t = "dict"
NoJsonBody == Body.exc # ""
Status == api.response.status_code

\* C14: for status 200 or 201 and a JSON object body _handle_response raises
\* nothing and returns the value of the body's "data" field when the body has
\* one and the whole body otherwise; the body {"data": {"reference": "r1"}}
\* with status 200 gives {"reference": "r1"}.
C14_SuccessUnwrapsData ==
    (Handled /\ Status \in {200, 201} /\ JsonObjectBody)
        => /\ ~RaisedByHandleResponse
           /\ api.data = IF K_data \in DOMAIN Body.v.d
                         THEN Body.v.d[K_data] ELSE Body.v
           /\ (Status = 200
                  /\ api.response.text = Wrapped(<<"{","\"","r","e","f","e","r","e","n","c","e","\"",":","\"","r","1","\"","}">>))
                 => api.data = PyDict(K_reference :> PyStr(<<"r","1">>))

C14_Witness ==
    /\ Handled /\ Status = 200
    /\ api.response.text = Wrapped(<<"{","\"","r","e","f","e","r","e","n","c","e","\"",":","\"","r","1","\"","}">>)
    /\ api.data = PyDict(K_reference :> PyStr(<<"r","1">>))

\* C15: for every JSON object body, status 401 raises AuthenticationError,
\* 400 ValidationError, 404 NotFoundError, 429 RateLimitError and every
\* status from 500 on ServerError.
C15_StatusTable ==
    (Handled /\ JsonObjectBody
             /\ (Status \in {400, 401, 404, 429} \/ Status >= 500))
        => /\ RaisedByHandleResponse
           /\ api.exc.class =
                  CASE Status = 401 -> "AuthenticationError"
                    [] Status = 400 -> "ValidationError"
                    [] Status = 404 -> "NotFoundError"
                    [] Status = 429 -> "RateLimitError"
                    [] OTHER -> "ServerError"

C15_Witness ==
    /\ RaisedByHandleResponse /\ JsonObjectBody
    /\ Status = 404
    /\ api.exc.class = "NotFoundError"

\* C16: for every JSON object body, status 403 raises ForbiddenError, 409
\* ConflictError and 422 UnprocessableEntityError.
C16_ForbiddenConflictUnprocessable ==
    (Handled /\ JsonObjectBody /\ Status \in {403, 409, 422})
        => /\ RaisedByHandleResponse
           /\ api.exc.class =
                  CASE Status = 403 -> "ForbiddenError"
                    [] Status = 409 -> "ConflictError"
                    [] OTHER -> "UnprocessableEntityError"

\* A response with status 403 and a JSON object body raises the base class
\* SnippeError.
C16_Witness ==
    /\ RaisedByHandleResponse /\ JsonObjectBody
    /\ Status = 403
    /\ api.exc.class = "SnippeError"

C19_OneRequestNoRetry ==
    /\ [][/\ api_key' = api_key /\ base_url' = base_url
          /\ http_client' = http_client
          /\ api.pc = "handle" => requests' = requests
          /\ requests' # requests
                => /\ api.pc = "request"
                   /\ requests' = Append(requests, api.request)]_vars
    /\ [](Handled => api.sent = 1)
    /\ [](api.pc = "done" /\ api.op # "idle"
             => /\ api.sent = 1
                /\ Cardinality({i \in 1..Len(api.steps) :
                                    api.steps[i] = "request"}) = 1
                /\ requests[Len(requests)] = api.request)

C19_Witness ==
    /\ RaisedByHandleResponse
    /\ api.op = "create_mobile_payout"
    /\ api.exc.class = "ServerError"
    /\ api.sent = 1
    /\ Len(requests) = 1

\* C20: Payment.from_dict gives the same amount and currency for the flat
\* shape {"amount": v, "currency": c} and for the nested shape {"amount":
\* {"value": v, "currency": c}}: the integer v and the string c.
C20_MoneyShapeIndependent ==
    \A v \in AmountTexts, c \in CurrencyTexts :
        LET flat == json_loads(FlatPayment(v, c)).v
            nested == json_loads(NestedPayment(v, c)).v
        IN  (/\ api.op = "get_payment"
             /\ "from_dict" \in Range(api.steps)
             /\ api.data \in {flat, nested})
                => /\ api.outcome = "return"
                   /\ api.value.amount = json_loads(v).v
                   /\ api.value.amount.t = "int"
                   /\ api.value.currency = PyStr(c)
                   /\ api.value.amount =
                          Payment_from_dict(
                              IF api.data = flat THEN nested ELSE flat).v.amount
                   /\ api.value.currency =
                          Payment_from_dict(
                              IF api.data = flat THEN nested ELSE flat).v.currency

C20_Witness ==
    /\ api.op = "get_payment" /\ api.outcome = "return"
    /\ api.data = json_loads(NestedPayment(<<"5","0","0">>, <<"K","E","S">>)).v
    /\ api.value.amount = PyInt(500)
    /\ api.value.currency = PyStr(<<"K","E","S">>)

(***************************************************************************)
(* Properties of the models a method returns                               *)
(***************************************************************************)
\* The current call returned a model; from_dict ran on a JSON object.
ReturnedModel == api.pc = "done" /\ api.outcome = "return"
FromDictRan == "from_dict" \in Range(api.steps) /\ api.data.t = "dict"

\* The amounts of money a model holds, as [value, currency].
MoneyOf(v) ==
    CASE v.t = "Payment" -> {[value |-> v.amount, currency |-> v.currency]}
      [] v.t = "Balance" ->
            {[value |-> v.available_balance, currency |-> v.currency],
             [value |-> v.balance, currency |-> v.currency]}
      [] v.t = "Payout" ->
            {[value |-> m.value, currency |-> m.currency] :
                 m \in {v.amount, v.fees, v.total}}
      [] OTHER -> {}
Currencies == {PyStr(<<"T","Z","S">>), PyStr(<<"K","E","S">>), PyStr(<<"U","G","X">>)}

\* C21: every amount of money in a model that normalization returns has an
\* integer value >= 0 and a currency that is one of TZS, KES, UGX.
C21_MoneyIsValid ==
    ReturnedModel
        => \A m \in MoneyOf(api.value) :
              /\ m.value.t = "int"
              /\ m.value.n >= 0
              /\ m.currency \in Currencies

\* get_payment returns a Payment of amount -5 and currency USD for the body
\* {"reference":"r1","amount":-5,"currency":"USD"}.
C21_Witness ==
    /\ ReturnedModel /\ api.op = "get_payment"
    /\ api.response.text = FlatPayment(<<"-","5">>, <<"U","S","D">>)
    /\ api.value.amount = PyInt(0 - 5)
    /\ api.value.currency = PyStr(<<"U","S","D">>)

\* The optional fields of Payment and of Payout, as <<key of the raw JSON,
\* field of the model>>.
PaymentOptionals ==
    { <<K_expires_at, "expires_at">>, <<K_payment_url, "payment_url">>,
      <<K_qr_code, "qr_code">>, <<K_payment_qr_code, "payment_qr_code">>,
      <<K_payment_token, "payment_token">>, <<K_id, "id">>,
      <<K_psp_reference, "psp_reference">>, <<K_fee_amount, "fee_amount">>,
      <<K_net_amount, "net_amount">>, <<K_customer, "customer">>,
      <<K_metadata, "metadata">>, <<K_created_at, "created_at">> }
PayoutOptionals ==
    { <<K_narration, "narration">>, <<K_created_at, "created_at">>,
      <<K_completed_at, "completed_at">>,
      <<K_external_reference, "external_reference">>, <<K_id, "id">>,
      <<K_metadata, "metadata">>, <<K_source, "source">>,
      <<K_failure_reason, "failure_reason">> }
OptionalsOf(v) ==
    CASE v.t = "Payment" -> PaymentOptionals
      [] v.t = "Payout" -> PayoutOptionals
      [] OTHER -> {}

\* C22: an optional field of a Payment or a Payout that the raw JSON lacks
\* is None in the model, never "", and one that the raw JSON holds has the
\* value it holds, "" included: a field not returned differs from a field
\* returned as "".
C22_MissingOptionalIsNone ==
    (ReturnedModel /\ FromDictRan)
        => \A f \in OptionalsOf(api.value) :
              /\ f[1] \notin DOMAIN api.data.d
                    => /\ api.value[f[2]] = PyNone
                       /\ api.value[f[2]] # PyStr(<<>>)
              /\ f[1] \in DOMAIN api.data.d
                    => api.value[f[2]] = api.data.d[f[1]]

C22_Witness ==
    /\ ReturnedModel /\ api.op = "get_payment"
    /\ api.response.text = EmptyOptionals
    /\ api.value.payment_url = PyStr(<<>>)
    /\ api.value.expires_at = PyNone

\* C26: the amount and the currency of a Payment: when the raw amount is an
\* object, its value (0 when it has none) and its currency (when it has none
\* the top-level currency, and TZS when there is none either); when the raw
\* amount is a plain number, that number and the top-level currency (TZS
\* when there is none); when the raw amount is missing or null, 0.
C26_MoneyDefaults ==
    (ReturnedModel /\ FromDictRan /\ api.op = "get_payment")
        => LET d == api.data.d
               top == IF K_currency \in DOMAIN d THEN d[K_currency]
                      ELSE PyStr(<<"T","Z","S">>)
               given == K_amount \in DOMAIN d
           IN  /\ (given /\ d[K_amount].t = "dict")
                     => /\ api.value.amount =
                              IF K_value \in DOMAIN d[K_amount].d
                              THEN d[K_amount].d[K_value] ELSE PyInt(0)
                        /\ api.value.currency =
                              IF K_currency \in DOMAIN d[K_amount].d
                              THEN d[K_amount].d[K_currency] ELSE top
               /\ (given /\ d[K_amount].t = "int")
                     => /\ api.value.amount = d[K_amount]
                        /\ api.value.currency = top
               /\ (~given \/ d[K_amount].t = "None")
                     => /\ api.value.amount = PyInt(0)
                        /\ api.value.currency = top

C26_Witness ==
    /\ ReturnedModel /\ api.op = "get_payment"
    /\ api.response.text = AmountWithoutCurrency
    /\ api.value.amount = PyInt(500)
    /\ api.value.currency = PyStr(<<"K","E","S">>)

\* C27: Payout.from_dict does not raise for a JSON object in which amount,
\* fees, total, channel or recipient is missing or null; the amounts that
\* are missing or null are 0 TZS; and an amount in the flat shape becomes the
\* PayoutAmount of that value and of the top-level currency.
C27_PayoutTolerant ==
    (FromDictRan /\ api.op = "create_mobile_payout")
        => LET d == api.data.d
               absent(k) == k \notin DOMAIN d \/ d[k].t = "None"
               zero == [t |-> "PayoutAmount", value |-> PyInt(0),
                        currency |-> PyStr(<<"T","Z","S">>)]
           IN  /\ (\A k \in {K_amount, K_fees, K_total, K_channel, K_recipient} :
                       absent(k) \/ d[k].t = "dict")
                     => ReturnedModel
               /\ ReturnedModel
                     => /\ absent(K_amount) => api.value.amount = zero
                        /\ absent(K_fees) => api.value.fees = zero
                        /\ absent(K_total) => api.value.total = zero
               /\ (K_amount \in DOMAIN d /\ d[K_amount].t = "int")
                     => /\ ReturnedModel
                        /\ api.value.amount =
                              [t |-> "PayoutAmount", value |-> d[K_amount],
                               currency |-> IF K_currency \in DOMAIN d
                                            THEN d[K_currency]
                                            ELSE PyStr(<<"T","Z","S">>)]

\* create_mobile_payout ends with AttributeError in Payout.from_dict for the
\* 200 body {"reference":"po_1","amount":500,"currency":"TZS"}.
C27_Witness ==
    /\ api.op = "create_mobile_payout"
    /\ api.response.status_code = 200
    /\ api.response.text = FlatPayoutBody
    /\ api.pc = "done" /\ api.outcome = "raise"
    /\ api.steps = <<"request", "handle", "from_dict">>
    /\ api.exc.class = "AttributeError"

CustomerOptionals ==
    { <<"email", K_email>>, <<"address", K_address>>, <<"city", K_city>>,
      <<"state", K_state>>, <<"postcode", K_postcode>>,
      <<"country", K_country>>, <<"phone", K_phone>> }

\* C30: the customer entry of the payload create_mobile_payment sends holds
\* firstname and lastname, holds every optional field of the Customer that is
\* set to a non-empty value, with that value, and holds no field that is
\* unset.
C30_CustomerToDictLossless ==
    (api.op = "create_mobile_payment")
        => LET sent == api.request.json.d[K_customer].d
               c == api.customer
           IN  /\ sent[K_firstname] = c.firstname
               /\ sent[K_lastname] = c.lastname
               /\ \A f \in CustomerOptionals :
                     IF c[f[1]].t = "str" /\ c[f[1]].s # <<>>
                     THEN f[2] \in DOMAIN sent /\ sent[f[2]] = c[f[1]]
                     ELSE f[2] \notin DOMAIN sent

\* The request of a payment for John Doe with email and phone has gone out,
\* and its customer entry holds the email and no phone.
C30_Witness ==
    /\ api.op = "create_mobile_payment"
    /\ api.sent = 1
    /\ requests[Len(requests)] = api.request
    /\ api.customer.phone = PyStr(<<"0","7","1","2","3","4","5","6","7","8">>)
    /\ api.customer.address = PyNone
    /\ K_email \in DOMAIN api.request.json.d[K_customer].d
    /\ K_phone \notin DOMAIN api.request.json.d[K_customer].d

\* The digest of (payload, T) under the key of the call's handler.
DigestFor(call, T) ==
    hexdigest(encode(KeyOf(call)),
              encode(fstr(T) \o <<".">> \o call.payload))

\* C29: the signature binds the timestamp header: a call that presents, with
\* a timestamp that passes the replay check, the signature computed for the
\* same body and another timestamp string fails with "Invalid signature",
\* also when the two strings parse to the same integer.
C29_SignatureBindsTimestamp ==
    \A call \in VerifyCalls :
        (Done(call) /\ PassedReplayCheck(call))
            => \A T \in Timestamps :
                  (T # call.timestamp /\ call.signature = DigestFor(call, T))
                      => InvalidSignature(call)

\* The signature of (body, "1700000000") presented with "+1700000000", which
\* parses to the same integer, is rejected.
C29_Witness ==
    \E call \in VerifyCalls :
        /\ call.timestamp = PyStr(<<"+","1","7","0","0","0","0","0","0","0","0">>)
        /\ int(call.timestamp).n = Epoch
        /\ call.signature = DigestFor(call, T_epoch)
        /\ call.steps = <<"int", "fresh", "hmac", "compare">>
        /\ InvalidSignature(call)

(***************************************************************************)
(* Properties of webhooks verified concurrently                            *)
(***************************************************************************)
\* The calls in flight or ended, of every worker.
Active == {c \in DOMAIN calls : calls[c].op # "idle"}
Rejected(call) == Done(call) /\ call.outcome.kind = "raise"

KnownEvents ==
    {PyStr(<<"p","a","y","m","e","n","t",".","c","o","m","p","l","e","t","e","d">>), PyStr(<<"p","a","y","m","e","n","t",".","f","a","i","l","e","d">>),
     PyStr(<<"p","a","y","m","e","n","t",".","e","x","p","i","r","e","d">>), PyStr(<<"p","a","y","m","e","n","t",".","v","o","i","d","e","d">>),
     PyStr(<<"p","a","y","o","u","t",".","c","o","m","p","l","e","t","e","d">>), PyStr(<<"p","a","y","o","u","t",".","f","a","i","l","e","d">>)}

\* C23: a verified webhook whose body holds the required keys and an event
\* name that is none of the known names is not rejected: the pipeline returns
\* a WebhookPayload whose event is that name unchanged.
C23_UnknownEventPreserved ==
    \A c \in Active :
        LET call == calls[c]
        IN  /\ (/\ Done(call) /\ PassedVerification(call)
                 /\ call.data.t = "dict"
                 /\ \A i \in 1..Len(RequiredKeys) :
                        RequiredKeys[i] \in DOMAIN call.data.d
                 /\ call.data.d[K_event] \notin KnownEvents)
                    => /\ call.outcome.kind = "return"
                       /\ call.value.t = "WebhookPayload"
                       /\ call.value.event = call.data.d[K_event]
            /\ (/\ Done(call) /\ PassedVerification(call)
                 /\ call.payload = PaymentRefundedBody)
                    => /\ call.outcome.kind = "return"
                       /\ call.value.event = PyStr(<<"p","a","y","m","e","n","t",".","r","e","f","u","n","d","e","d">>)

C23_Witness ==
    \E c \in Active :
        /\ calls[c].payload = PaymentRefundedBody
        /\ Accepted(calls[c])
        /\ calls[c].steps =
               <<"int", "fresh", "hmac", "compare", "loads", "from_dict">>
        /\ calls[c].value.event = PyStr(<<"p","a","y","m","e","n","t",".","r","e","f","u","n","d","e","d">>)

\* What a call gives when it runs alone: its outcome and value as the
\* statements of verify_signature and verify_and_parse determine them from
\* the call's arguments, the fields of its handler and the reading of the
\* clock it took.
AloneBuilt(f) ==
    [outcome |-> IF f.exc = "" THEN Returned
                 ELSE [Raised(f.exc, "") EXCEPT !.key = f.key],
     value |-> f.v]
AloneParsed(j) ==
    IF j.exc # "" THEN [outcome |-> Raised(j.exc, ""), value |-> PyNone]
    ELSE AloneBuilt(from_dict(j.v))
Alone(call) ==
    IF ~Parses(call.timestamp)
    THEN [outcome |-> Raised("WebhookVerificationError", "Invalid timestamp"),
          value |-> PyNone]
    ELSE IF int(call.timestamp).digits > 309
    THEN [outcome |-> Raised("OverflowError", ""), value |-> PyNone]
    ELSE IF OutOfWindow(call)
    THEN [outcome |-> Raised("WebhookVerificationError",
                             "Webhook timestamp expired"),
          value |-> PyNone]
    ELSE IF ~IsAscii(call.signature)
    THEN [outcome |-> Raised("TypeError", ""), value |-> PyNone]
    ELSE IF call.signature # DigestFor(call, call.timestamp)
    THEN [outcome |-> Raised("WebhookVerificationError", "Invalid signature"),
          value |-> PyNone]
    ELSE AloneParsed(json_loads(call.payload))

\* C24: no step of a call on the handler changes signing_key or tolerance,
\* and whatever the interleaving of two workers' calls, a call that has
\* ended has the outcome and the value of the same call run alone.
C24_HandlerImmutableCallsIndependent ==
    /\ [][signing_key' = signing_key /\ tolerance' = tolerance]_vars
    /\ [](\A c \in Active :
              Done(calls[c])
                  => /\ calls[c].outcome = Alone(calls[c]).outcome
                     /\ calls[c].value = Alone(calls[c]).value)

\* One worker's call on the shared handler has ended with a payload while
\* the other's, on the same handler with another delivery, is between the
\* computation of the digest and its comparison.
C24_Witness ==
    \E c \in Active, o \in Active :
        /\ c # o
        /\ calls[c].handler = "shared" /\ calls[o].handler = "shared"
        /\ Accepted(calls[c])
        /\ calls[c].value.t = "WebhookPayload"
        /\ calls[o].pc = "compare"
        /\ calls[o].payload # calls[c].payload
        /\ calls[o].signature = PyStr(<<"d","e","a","d","b","e","e","f">>)

=============================================================================
